---- MODULE Spec2Model ----
(***************************************************************************)
(* A model of the proto-mav dialect compiler (build/parser.rs): the        *)
(* streaming ingestor parse_profile, the wire-layout planner, the          *)
(* compatibility digest extra_crc, and the native codec the compiler       *)
(* emits (ser / deser / MavMessage::parse).                                *)
(*                                                                         *)
(* Text is modelled as sequences of byte codes, so that name sanitising,   *)
(* type parsing and the CRC operate on what the code operates on.          *)
(* Option<T> is a sequence of length 0 (None) or 1 (Some).                  *)
(***************************************************************************)
EXTENDS Integers, Sequences, FiniteSets, TLC

(***************************************************************************)
(* Bounds of the model.                                                    *)
(***************************************************************************)
\* Fields declared in one message of the ingested documents.
MaxFields == 3

(***************************************************************************)
(* Text literals (byte codes).                                             *)
(***************************************************************************)
S_uint8_t_mavlink_version == <<117, 105, 110, 116, 56, 95, 116, 95, 109, 97, 118, 108, 105, 110, 107, 95, 118, 101, 114, 115, 105, 111, 110>>
S_uint8_t == <<117, 105, 110, 116, 56, 95, 116>>
S_uint16_t == <<117, 105, 110, 116, 49, 54, 95, 116>>
S_uint32_t == <<117, 105, 110, 116, 51, 50, 95, 116>>
S_uint64_t == <<117, 105, 110, 116, 54, 52, 95, 116>>
S_int8_t == <<105, 110, 116, 56, 95, 116>>
S_int16_t == <<105, 110, 116, 49, 54, 95, 116>>
S_int32_t == <<105, 110, 116, 51, 50, 95, 116>>
S_int64_t == <<105, 110, 116, 54, 52, 95, 116>>
S_char == <<99, 104, 97, 114>>
S_float == <<102, 108, 111, 97, 116>>
S_Double == <<68, 111, 117, 98, 108, 101>>
S_double == <<100, 111, 117, 98, 108, 101>>
S_type == <<116, 121, 112, 101>>
S_mavtype == <<109, 97, 118, 116, 121, 112, 101>>
S_bitmask == <<98, 105, 116, 109, 97, 115, 107>>

None == << >>
Some(x) == <<x>>
IsSome(o) == Len(o) = 1
Unwrap(o) == o[1]

IsUpper(c) == c >= 65 /\ c <= 90
IsLower(c) == c >= 97 /\ c <= 122
IsDigit(c) == c >= 48 /\ c <= 57
\* char::is_alphabetic on the ASCII range the dialects use
IsAlphabetic(c) == IsUpper(c) \/ IsLower(c)
ToLower(c) == IF IsUpper(c) THEN c + 32 ELSE c
ToUpper(c) == IF IsLower(c) THEN c - 32 ELSE c

RECURSIVE SeqSum(_)
SeqSum(s) == IF s = << >> THEN 0 ELSE Head(s) + SeqSum(Tail(s))

RECURSIVE Flatten(_)
Flatten(ss) == IF ss = << >> THEN << >> ELSE Head(ss) \o Flatten(Tail(ss))

\* str::split('_'): the segments between underscores, empty ones included
RECURSIVE SplitUnderscore(_, _)
SplitUnderscore(s, cur) ==
    IF s = << >> THEN <<cur>>
    ELSE IF Head(s) = 95 THEN <<cur>> \o SplitUnderscore(Tail(s), << >>)
    ELSE SplitUnderscore(Tail(s), Append(cur, Head(s)))

\* rusty_name indexes v[0] of every segment: an empty segment panics
RustyNamePanics(name) ==
    \E i \in DOMAIN SplitUnderscore(name, << >>) : SplitUnderscore(name, << >>)[i] = << >>

Capitalize(seg) ==
    [i \in DOMAIN seg |-> IF i = 1 THEN ToUpper(ToLower(seg[i])) ELSE ToLower(seg[i])]

\* rusty_name: FOO_BAR -> FooBar
rusty_name(name) ==
    LET parts == SplitUnderscore(name, << >>)
    IN  Flatten([i \in DOMAIN parts |-> Capitalize(parts[i])])

\* str::parse::<u32>/<usize> of a decimal text: None when empty or non-numeric
RECURSIVE DigitsValue(_, _)
DigitsValue(s, acc) ==
    IF s = << >> THEN acc ELSE DigitsValue(Tail(s), acc * 10 + (Head(s) - 48))

ParseDecimal(s) ==
    IF s # << >> /\ \A i \in DOMAIN s : IsDigit(s[i])
    THEN Some(DigitsValue(s, 0))
    ELSE None

(***************************************************************************)
(* MavType: twelve scalar kinds and Array(Box<MavType>, usize).  parse_type*)
(* never yields an array of arrays, so the element is kept by its kind.    *)
(***************************************************************************)
Scalar(k) == [array |-> FALSE, prim |-> k, size |-> 0]
ArrayOf(k, n) == [array |-> TRUE, prim |-> k, size |-> n]

\* impl Default for MavType
DefaultMavType == Scalar("UInt8")

ParseScalarType(s) ==
    CASE s = S_uint8_t_mavlink_version -> Some("UInt8MavlinkVersion")
      [] s = S_uint8_t  -> Some("UInt8")
      [] s = S_uint16_t -> Some("UInt16")
      [] s = S_uint32_t -> Some("UInt32")
      [] s = S_uint64_t -> Some("UInt64")
      [] s = S_int8_t   -> Some("Int8")
      [] s = S_int16_t  -> Some("Int16")
      [] s = S_int32_t  -> Some("Int32")
      [] s = S_int64_t  -> Some("Int64")
      [] s = S_char     -> Some("Char")
      [] s = S_float    -> Some("Float")
      [] s = S_Double   -> Some("Double")
      [] s = S_double   -> Some("Double")
      [] OTHER          -> None

\* position of the first '[' (str::find), 0 when there is none
FirstBracket(s) ==
    IF \E i \in DOMAIN s : s[i] = 91
    THEN CHOOSE i \in DOMAIN s : s[i] = 91 /\ \A j \in 1..(i - 1) : s[j] # 91
    ELSE 0

\* MavType::parse_type
parse_type(s) ==
    IF IsSome(ParseScalarType(s)) THEN Some(Scalar(Unwrap(ParseScalarType(s))))
    ELSE IF s # << >> /\ s[Len(s)] = 93 /\ FirstBracket(s) > 0
    THEN LET start == FirstBracket(s)
             size  == ParseDecimal(SubSeq(s, start + 1, Len(s) - 1))
             mtype == ParseScalarType(SubSeq(s, 1, start - 1))
         IN  IF IsSome(size) /\ IsSome(mtype)
             THEN Some(ArrayOf(Unwrap(mtype), Unwrap(size)))
             ELSE None
    ELSE None

\* the scalar arms of MavType::len and MavType::order_len
PrimLen(k) ==
    CASE k \in {"UInt8MavlinkVersion", "UInt8", "Int8", "Char"} -> 1
      [] k \in {"UInt16", "Int16"} -> 2
      [] k \in {"UInt32", "Int32", "Float"} -> 4
      [] k \in {"UInt64", "Int64", "Double"} -> 8

\* (mutant of MavTypeLen: the element count of an array is dropped)
MavTypeLen_NoCount(t) == PrimLen(t.prim)

\* MavType::len: size of a given MavType on the wire
MavTypeLen(t) == IF t.array THEN PrimLen(t.prim) * t.size ELSE PrimLen(t.prim)

\* (mutant of order_len: an array orders by its total size)
order_len_Total(t) == MavTypeLen(t)

\* MavType::order_len: an array orders by the length of its element
order_len(t) == PrimLen(t.prim)

\* MavType::primitive_type, as text
primitive_type(t) ==
    CASE t.prim \in {"UInt8MavlinkVersion", "UInt8"} -> S_uint8_t
      [] t.prim = "Int8"   -> S_int8_t
      [] t.prim = "Char"   -> S_char
      [] t.prim = "UInt16" -> S_uint16_t
      [] t.prim = "Int16"  -> S_int16_t
      [] t.prim = "UInt32" -> S_uint32_t
      [] t.prim = "Int32"  -> S_int32_t
      [] t.prim = "Float"  -> S_float
      [] t.prim = "UInt64" -> S_uint64_t
      [] t.prim = "Int64"  -> S_int64_t
      [] t.prim = "Double" -> S_double

(***************************************************************************)
(* The IR: MavField, MavMessage, MavEnumEntry, MavEnum, MavProfile.        *)
(* Description texts are carried by no operation modelled here and are     *)
(* left out; entry.params is kept by its length.                           *)
(***************************************************************************)
DefaultField ==
    [mavtype |-> DefaultMavType, name |-> << >>, raw_name |-> << >>,
     enumtype |-> None, raw_enumtype |-> None, display |-> None,
     is_extension |-> FALSE]

DefaultMessage == [id |-> 0, name |-> << >>, raw_name |-> << >>, fields |-> << >>]

DefaultEntry == [value |-> None, name |-> << >>, raw_name |-> << >>, params |-> None]

DefaultEnum == [name |-> << >>, raw_name |-> << >>, entries |-> << >>, bitfield |-> None]

EmptyProfile == [includes |-> << >>, messages |-> << >>, enums |-> << >>]

(***************************************************************************)
(* XML events and the element vocabulary.                                  *)
(***************************************************************************)
StartEv(tag, attrs) == [type |-> "Start", name |-> tag, attrs |-> attrs, text |-> << >>]
EndEv(tag) == [type |-> "End", name |-> tag, attrs |-> << >>, text |-> << >>]
CharsEv(text) == [type |-> "Chars", name |-> "", attrs |-> << >>, text |-> text]
ErrEv == [type |-> "Err", name |-> "", attrs |-> << >>, text |-> << >>]
\* StartDocument, EndDocument, Comment, Whitespace, ...
OtherEv == [type |-> "Other", name |-> "", attrs |-> << >>, text |-> << >>]
Attr(n, v) == [name |-> n, value |-> v]

identify_element(s) ==
    CASE s = "version"     -> Some("Version")
      [] s = "mavlink"     -> Some("Mavlink")
      [] s = "dialect"     -> Some("Dialect")
      [] s = "include"     -> Some("Include")
      [] s = "enums"       -> Some("Enums")
      [] s = "enum"        -> Some("Enum")
      [] s = "entry"       -> Some("Entry")
      [] s = "description" -> Some("Description")
      [] s = "param"       -> Some("Param")
      [] s = "messages"    -> Some("Messages")
      [] s = "message"     -> Some("Message")
      [] s = "field"       -> Some("Field")
      [] s = "deprecated"  -> Some("Deprecated")
      [] s = "wip"         -> Some("Wip")
      [] s = "extensions"  -> Some("Extensions")
      [] OTHER             -> None

\* (mutant of is_valid_parent: every kind is permitted anywhere)
is_valid_parent_Any(p, s) == TRUE

\* p is stack.last().copied(): an Option
is_valid_parent(p, s) ==
    CASE s = "Version"     -> p = Some("Mavlink")
      [] s = "Mavlink"     -> p = None
      [] s = "Dialect"     -> p = Some("Mavlink")
      [] s = "Include"     -> p = Some("Mavlink")
      [] s = "Enums"       -> p = Some("Mavlink")
      [] s = "Enum"        -> p = Some("Enums")
      [] s = "Entry"       -> p = Some("Enum")
      [] s = "Description" -> p = Some("Entry") \/ p = Some("Message") \/ p = Some("Enum")
      [] s = "Param"       -> p = Some("Entry")
      [] s = "Messages"    -> p = Some("Mavlink")
      [] s = "Message"     -> p = Some("Messages")
      [] s = "Field"       -> p = Some("Message")
      [] s = "Deprecated"  -> p = Some("Entry") \/ p = Some("Message") \/ p = Some("Enum")
      [] s = "Wip"         -> p = Some("Entry") \/ p = Some("Message") \/ p = Some("Enum")
      [] s = "Extensions"  -> p = Some("Message")

\* stack.last()
Last(stack) == IF stack = << >> THEN None ELSE Some(stack[Len(stack)])

(***************************************************************************)
(* Field layout: the planner run when a message element closes.            *)
(***************************************************************************)
\* (mutant of CompareLess: the narrower type is ordered first)
CompareLess_Ascending(a, b) == order_len(a) < order_len(b)

\* MavType::compare: Less when self is the wider type
CompareLess(a, b) == (0 - order_len(a)) < (0 - order_len(b))

\* insertion of x after every element that does not compare greater than it
RECURSIVE InsertStable(_, _)
InsertStable(sorted, x) ==
    IF sorted = << >> THEN <<x>>
    ELSE IF CompareLess(x.mavtype, Head(sorted).mavtype) THEN <<x>> \o sorted
    ELSE <<Head(sorted)>> \o InsertStable(Tail(sorted), x)

\* slice::sort_by(|a, b| a.mavtype.compare(&b.mavtype)): a stable sort
RECURSIVE SortByCompare(_)
SortByCompare(fields) ==
    IF fields = << >> THEN << >>
    ELSE InsertStable(SortByCompare(SubSeq(fields, 1, Len(fields) - 1)), fields[Len(fields)])

IsExtension(f) == f.is_extension
NotExtension(f) == ~f.is_extension

\* the Message arm of the EndElement handler: reorder the fields of the message
\* (Vec::retain twice, sort_by on the non-extension fields, extend twice)
PlanFields(fields) ==
    SortByCompare(SelectSeq(fields, NotExtension)) \o SelectSeq(fields, IsExtension)

(***************************************************************************)
(* parse_profile: the locals of the event loop, kept as one record so that *)
(* the handlers below are operators both the step-by-step ingestion and    *)
(* the whole-document ingestion use.                                       *)
(***************************************************************************)
InitParser ==
    [stack |-> << >>, profile |-> EmptyProfile,
     field |-> DefaultField, message |-> DefaultMessage,
     mavenum |-> DefaultEnum, entry |-> DefaultEntry,
     include |-> << >>, paramid |-> None,
     is_in_extension |-> FALSE, panicked |-> FALSE, broke |-> FALSE]

Panic(s) == [s EXCEPT !.panicked = TRUE]

HexDigit(c) ==
    IF IsDigit(c) THEN c - 48
    ELSE IF c >= 97 /\ c <= 102 THEN c - 87
    ELSE IF c >= 65 /\ c <= 70 THEN c - 55
    ELSE 0 - 1

RECURSIVE HexValue(_, _)
HexValue(s, acc) ==
    IF s = << >> THEN acc ELSE HexValue(Tail(s), acc * 16 + HexDigit(Head(s)))

\* str::trim_start_matches("0x")
RECURSIVE TrimStart0x(_)
TrimStart0x(s) ==
    IF Len(s) >= 2 /\ s[1] = 48 /\ s[2] = 120 THEN TrimStart0x(SubSeq(s, 3, Len(s))) ELSE s

\* the "value" attribute of an entry: an Option, None where the code's unwrap
\* panics (the texts of the model stay far below the u32 range)
ParseEntryValue(v) ==
    IF Len(v) >= 2 /\ v[1] = 48 /\ v[2] = 120
    THEN LET d == TrimStart0x(v)
         IN  IF d # << >> /\ (\A i \in DOMAIN d : HexDigit(d[i]) >= 0)
             THEN Some(HexValue(d, 0)) ELSE None
    ELSE ParseDecimal(v)

\* str::strip_prefix
StartsWith(s, pre) == Len(s) >= Len(pre) /\ SubSeq(s, 1, Len(pre)) = pre

\* the name of an entry: the enum's name is stripped once when a letter follows
EntryName(name, enum_name) ==
    IF StartsWith(name, enum_name)
    THEN LET n == SubSeq(name, Len(enum_name) + 1, Len(name))
         IN  IF n # << >> /\ IsAlphabetic(n[1]) THEN n ELSE name
    ELSE name

\* the identifier of a field: "type" is not usable in the generated code
FieldIdent(v) == IF v = S_type THEN S_mavtype ELSE v

\* one attribute of a StartElement, by the kind on top of the stack
ApplyAttr(s, attr) ==
    LET top == Last(s.stack) IN
    CASE top = Some("Enum") ->
            IF attr.name = "name"
            THEN IF RustyNamePanics(attr.value) THEN Panic(s)
                 ELSE [s EXCEPT !.mavenum.raw_name = attr.value,
                                !.mavenum.name = rusty_name(attr.value)]
            ELSE s
      [] top = Some("Entry") ->
            IF attr.name = "name"
            THEN IF RustyNamePanics(attr.value) THEN Panic(s)
                 ELSE [s EXCEPT !.entry.raw_name = attr.value,
                                !.entry.name = EntryName(rusty_name(attr.value), s.mavenum.name)]
            ELSE IF attr.name = "value"
            THEN IF IsSome(ParseEntryValue(attr.value))
                 THEN [s EXCEPT !.entry.value = ParseEntryValue(attr.value)]
                 ELSE Panic(s)
            ELSE s
      [] top = Some("Message") ->
            IF attr.name = "name"
            THEN IF RustyNamePanics(attr.value) THEN Panic(s)
                 ELSE [s EXCEPT !.message.raw_name = attr.value,
                                !.message.name = rusty_name(attr.value)]
            ELSE IF attr.name = "id"
            THEN IF IsSome(ParseDecimal(attr.value))
                 THEN [s EXCEPT !.message.id = Unwrap(ParseDecimal(attr.value))]
                 ELSE Panic(s)
            ELSE s
      [] top = Some("Field") ->
            IF attr.name = "name"
            THEN [s EXCEPT !.field.raw_name = attr.value,
                           !.field.name = FieldIdent(attr.value)]
            ELSE IF attr.name = "type"
            THEN IF IsSome(parse_type(attr.value))
                 THEN [s EXCEPT !.field.mavtype = Unwrap(parse_type(attr.value))]
                 ELSE Panic(s)
            ELSE IF attr.name = "enum"
            THEN IF RustyNamePanics(attr.value) THEN Panic(s)
                 ELSE [s EXCEPT !.field.raw_enumtype = Some(attr.value),
                                !.field.enumtype = Some(rusty_name(attr.value))]
            ELSE IF attr.name = "display"
            THEN [s EXCEPT !.field.display = Some(attr.value)]
            ELSE s
      [] top = Some("Param") ->
            LET s1 == IF s.entry.params = None THEN [s EXCEPT !.entry.params = Some(0)] ELSE s
            IN  IF attr.name = "index"
                THEN IF IsSome(ParseDecimal(attr.value))
                     THEN [s1 EXCEPT !.paramid = ParseDecimal(attr.value)]
                     ELSE Panic(s1)
                ELSE s1
      [] OTHER -> s

\* for attr in attrs { ... }
RECURSIVE ApplyAttrs(_, _)
ApplyAttrs(s, attrs) ==
    IF attrs = << >> \/ s.panicked THEN s
    ELSE ApplyAttrs(ApplyAttr(s, Head(attrs)), Tail(attrs))

\* match id { ... }: what opening an element resets
OpenKind(s, id) ==
    CASE id = "Extensions" -> [s EXCEPT !.is_in_extension = TRUE]
      [] id = "Message"    -> [s EXCEPT !.message = DefaultMessage]
      [] id = "Field"      -> [s EXCEPT !.field = [DefaultField EXCEPT !.is_extension = s.is_in_extension]]
      [] id = "Enum"       -> [s EXCEPT !.mavenum = DefaultEnum]
      [] id = "Entry"      -> [s EXCEPT !.entry = DefaultEntry]
      [] id = "Include"    -> [s EXCEPT !.include = << >>]
      [] id = "Param"      -> [s EXCEPT !.paramid = None]
      [] OTHER             -> s

\* Ok(XmlEvent::StartElement { name, attributes, .. })
OnStartElement(s, e) ==
    IF identify_element(e.name) = None THEN Panic(s)
    ELSE LET id == Unwrap(identify_element(e.name)) IN
         IF ~is_valid_parent(Last(s.stack), id) THEN Panic(s)
         ELSE LET s1 == OpenKind(s, id)
              IN  ApplyAttrs([s1 EXCEPT !.stack = Append(s1.stack, id)], e.attrs)

\* str::replace("\n", "")
StripNewlines(t) == SelectSeq(t, LAMBDA c : c # 10)

\* Ok(XmlEvent::Characters(s)).  stack.get(stack.len() - 2) underflows on a
\* stack of fewer than two: a panic in a checked build, and in an unchecked
\* one a None that no arm but the panicking one matches.
OnCharacters(s, e) ==
    IF Len(s.stack) < 2 THEN Panic(s)
    ELSE LET top == s.stack[Len(s.stack)]
             below == s.stack[Len(s.stack) - 1]
         IN
         CASE top = "Description" /\ below \in {"Message", "Enum", "Entry"} -> s
           [] top = "Field" /\ below = "Message" -> s
           [] top = "Param" /\ below = "Entry" ->
                IF s.entry.params = None THEN s
                ELSE IF s.paramid = None \/ s.paramid = Some(0) THEN Panic(s)
                ELSE IF Unwrap(s.entry.params) < Unwrap(s.paramid)
                     THEN [s EXCEPT !.entry.params = s.paramid]
                     ELSE s
           [] top = "Include" /\ below = "Mavlink" -> [s EXCEPT !.include = StripNewlines(e.text)]
           [] top = "Version" /\ below = "Mavlink" -> s
           [] top = "Dialect" /\ below = "Mavlink" -> s
           [] top = "Deprecated" -> s
           [] OTHER -> Panic(s)

\* stack.pop()
Pop(stack) == IF stack = << >> THEN << >> ELSE SubSeq(stack, 1, Len(stack) - 1)

\* (mutant of CloseMessage: the in-extension flag outlives the message)
CloseMessage_KeepFlag(s) ==
    [s EXCEPT !.profile.messages =
                  Append(@, [s.message EXCEPT !.fields = PlanFields(s.message.fields)])]

\* the Message arm of Ok(XmlEvent::EndElement { .. })
CloseMessage(s) ==
    [s EXCEPT !.is_in_extension = FALSE,
              !.profile.messages =
                  Append(@, [s.message EXCEPT !.fields = PlanFields(s.message.fields)])]

\* Ok(XmlEvent::EndElement { .. })
OnEndElement(s) ==
    LET top == Last(s.stack)
        s1 == CASE top = Some("Field")   -> [s EXCEPT !.message.fields = Append(@, s.field)]
                [] top = Some("Entry")   -> [s EXCEPT !.mavenum.entries = Append(@, s.entry)]
                [] top = Some("Message") -> CloseMessage(s)
                [] top = Some("Enum")    -> [s EXCEPT !.profile.enums = Append(@, s.mavenum)]
                [] top = Some("Include") -> [s EXCEPT !.profile.includes = Append(@, s.include)]
                [] OTHER -> s
    IN  [s1 EXCEPT !.stack = Pop(s1.stack)]

\* Err(e) => { eprintln!(..); break; }
OnError(s) == [s EXCEPT !.broke = TRUE]

\* one turn of `for e in parser`
Step(s, e) ==
    CASE e.type = "Start" -> OnStartElement(s, e)
      [] e.type = "Chars" -> OnCharacters(s, e)
      [] e.type = "End"   -> OnEndElement(s)
      [] e.type = "Err"   -> OnError(s)
      [] OTHER            -> s

(***************************************************************************)
(* After the loop: update_enums.  The pre-pass: MavXmlFilter.              *)
(***************************************************************************)
\* arrays above this many elements are held in a Vec
VecThreshold == 32

ScalarRustType(k) ==
    CASE k \in {"UInt8", "UInt8MavlinkVersion"} -> "u8"
      [] k = "Int8"   -> "i8"
      [] k = "Char"   -> "char"
      [] k = "UInt16" -> "u16"
      [] k = "Int16"  -> "i16"
      [] k = "UInt32" -> "u32"
      [] k = "Int32"  -> "i32"
      [] k = "Float"  -> "f32"
      [] k = "UInt64" -> "u64"
      [] k = "Int64"  -> "i64"
      [] k = "Double" -> "f64"

\* MavType::rust_type: "u8", "[u8;4]" or "Vec<u8> /* 40 elements */"
rust_type(t) ==
    IF ~t.array THEN [ctor |-> "scalar", elem |-> ScalarRustType(t.prim), size |-> 0]
    ELSE IF t.size > VecThreshold
         THEN [ctor |-> "Vec", elem |-> ScalarRustType(t.prim), size |-> t.size]
         ELSE [ctor |-> "slice", elem |-> ScalarRustType(t.prim), size |-> t.size]

\* every field of every message, in iteration order
AllFields(messages) == Flatten([i \in DOMAIN messages |-> messages[i].fields])

IsBitmaskRef(f, enum_name) ==
    f.enumtype = Some(enum_name) /\ f.display = Some(S_bitmask)

\* MavProfile::update_enums: the last bitmask reference to an enum sets its width
update_enums(profile) ==
    LET fs == AllFields(profile.messages)
        Mark(enm) ==
            IF \E i \in DOMAIN fs : IsBitmaskRef(fs[i], enm.name)
            THEN LET last == CHOOSE i \in DOMAIN fs :
                                 /\ IsBitmaskRef(fs[i], enm.name)
                                 /\ \A j \in DOMAIN fs : IsBitmaskRef(fs[j], enm.name) => j <= i
                 IN  [enm EXCEPT !.bitfield = Some(rust_type(fs[last].mavtype))]
            ELSE enm
    IN  [profile EXCEPT !.enums = [i \in DOMAIN profile.enums |-> Mark(profile.enums[i])]]

\* MavXmlFilter::filter_extension on the k-th event: the value it leaves in
\* is_in_extension, which is set by the last <extensions> start and cleared by
\* the last </message> among the events up to the k-th
InExtensionAt(events, is_in, k) ==
    LET toggles == {j \in 1..k :
            \/ events[j].type = "Start" /\ identify_element(events[j].name) = Some("Extensions")
            \/ events[j].type = "End" /\ identify_element(events[j].name) = Some("Message")}
    IN  IF toggles = {} THEN is_in
        ELSE events[CHOOSE j \in toggles : \A l \in toggles : l <= j].type = "Start"

\* MavXmlFilter::filter_extension without the emit-extensions feature, run by
\* Vec::retain over the events: the events it keeps, in order, or a panic
FilterFrom(events, is_in, kept) ==
    IF \E j \in DOMAIN events :
          \/ events[j].type = "Err"
          \/ events[j].type \in {"Start", "End"} /\ identify_element(events[j].name) = None
    THEN [panicked |-> TRUE, kept |-> << >>]
    ELSE LET retained == {j \in DOMAIN events : ~InExtensionAt(events, is_in, j)}
             nth(n) == CHOOSE j \in retained : Cardinality({l \in retained : l <= j}) = n
         IN  [panicked |-> FALSE,
              kept |-> kept \o [n \in 1..Cardinality(retained) |-> events[nth(n)]]]

FilterExtension(events, is_in) == FilterFrom(events, is_in, << >>)

\* (mutant of Filtered: every event is kept in both build modes)
Filtered_KeepAll(events, emit_ext) == [panicked |-> FALSE, kept |-> events]

\* MavXmlFilter::filter: with the emit-extensions feature every event is kept
Filtered(events, emit_ext) ==
    IF emit_ext THEN [panicked |-> FALSE, kept |-> events]
    ELSE FilterExtension(events, FALSE)

RECURSIVE RunLoop(_, _)
RunLoop(s, events) ==
    IF events = << >> \/ s.panicked \/ s.broke THEN s
    ELSE RunLoop(Step(s, Head(events)), Tail(events))

\* parse_profile on a whole document: the profile, or a panic
parse_profile(events, emit_ext) ==
    LET f == Filtered(events, emit_ext) IN
    IF f.panicked THEN [panicked |-> TRUE, profile |-> EmptyProfile]
    ELSE LET s == RunLoop(InitParser, f.kept)
         IN  IF s.panicked THEN [panicked |-> TRUE, profile |-> EmptyProfile]
             ELSE [panicked |-> FALSE, profile |-> update_enums(s.profile)]

(***************************************************************************)
(* The documents the model ingests.                                        *)
(***************************************************************************)
S_MODE == <<77, 79, 68, 69>>
S_MODE_A == <<77, 79, 68, 69, 95, 65>>
S_MODE_B == <<77, 79, 68, 69, 95, 66>>
S_M_A == <<77, 95, 65>>
S_M_B == <<77, 95, 66>>
S_mode == <<109, 111, 100, 101>>
S_c_xml_nl == <<99, 46, 120, 109, 108, 10>>
S_0x2 == <<48, 120, 50>>
S_x == <<120>>

RECURSIVE DecText(_)
DecText(n) == IF n < 10 THEN <<48 + n>> ELSE DecText(n \div 10) \o <<48 + (n % 10)>>

\* the text "base[n]"
ArrayText(base, n) == base \o <<91>> \o DecText(n) \o <<93>>

\* field types of the generated documents: order widths 4, 1, 1; the array
\* is longer in total than the 4-byte scalar
TypeTexts == <<S_uint32_t, ArrayText(S_uint8_t, 8), S_uint8_t>>

\* the declared name of the i-th field: a, type, c, d, ...
FieldNameAt(i) == IF i = 2 THEN S_type ELSE <<96 + i>>

\* where an <extensions/> marker may stand: before field ext + 1; NoMarker for none
NoMarker == 0 - 1

MessageDecls ==
    { [n |-> n, types |-> ts, ext |-> x] :
        n \in 0..MaxFields, ts \in UNION {[1..k -> DOMAIN TypeTexts] : k \in 0..MaxFields},
        x \in NoMarker..MaxFields } 

WellFormedDecl(d) == DOMAIN d.types = 1..d.n /\ d.ext <= d.n

Marker(d, k) ==
    IF d.ext = k THEN <<StartEv("extensions", << >>), EndEv("extensions")>> ELSE << >>

FieldEvents(d, i) ==
    Marker(d, i - 1)
    \o <<StartEv("field", <<Attr("type", TypeTexts[d.types[i]]), Attr("name", FieldNameAt(i))>>),
         EndEv("field")>>

\* <mavlink><messages><message name=.. id="7"> fields </message></messages></mavlink>
NamedDoc(name, d) ==
    <<OtherEv, StartEv("mavlink", << >>), StartEv("messages", << >>),
      StartEv("message", <<Attr("name", name), Attr("id", DecText(7))>>)>>
    \o Flatten([i \in 1..d.n |-> FieldEvents(d, i)])
    \o Marker(d, d.n)
    \o <<EndEv("message"), EndEv("messages"), EndEv("mavlink"), OtherEv>>

MessageDoc(d) == NamedDoc(S_M_A, d)

\* <message name=.. id=..> fields </message>
MessageEvents(name, id, d) ==
    <<StartEv("message", <<Attr("name", name), Attr("id", DecText(id))>>)>>
    \o Flatten([i \in 1..d.n |-> FieldEvents(d, i)])
    \o Marker(d, d.n)
    \o <<EndEv("message")>>

\* messages of a uint8_t and a uint32_t field, with or without a marker
TwoFieldDecls == { [n |-> 2, types |-> <<3, 1>>, ext |-> x] : x \in NoMarker..2 }

\* a dialect of two messages, M_A id 7 and M_B id 8
TwoMessageDoc(d1, d2) ==
    <<OtherEv, StartEv("mavlink", << >>), StartEv("messages", << >>)>>
    \o MessageEvents(S_M_A, 7, d1)
    \o MessageEvents(S_M_B, 8, d2)
    \o <<EndEv("messages"), EndEv("mavlink"), OtherEv>>

\* a dialect with an include, an enum with two entries and a message whose
\* first field is a bitmask of that enum
EnumDoc ==
    <<OtherEv, StartEv("mavlink", << >>),
      StartEv("include", << >>), CharsEv(S_c_xml_nl), EndEv("include"),
      StartEv("version", << >>), CharsEv(DecText(3)), EndEv("version"),
      StartEv("enums", << >>),
        StartEv("enum", <<Attr("name", S_MODE)>>),
          StartEv("description", << >>), CharsEv(S_x), EndEv("description"),
          StartEv("entry", <<Attr("value", DecText(1)), Attr("name", S_MODE_A)>>),
            StartEv("param", <<Attr("index", DecText(2))>>), CharsEv(S_x), EndEv("param"),
          EndEv("entry"),
          StartEv("entry", <<Attr("value", S_0x2), Attr("name", S_MODE_B)>>), EndEv("entry"),
        EndEv("enum"),
      EndEv("enums"),
      StartEv("messages", << >>),
        StartEv("message", <<Attr("name", S_M_A), Attr("id", DecText(7))>>),
          StartEv("field", <<Attr("type", S_uint8_t), Attr("name", S_mode),
                             Attr("enum", S_MODE), Attr("display", S_bitmask)>>),
            CharsEv(S_x),
          EndEv("field"),
          StartEv("extensions", << >>), EndEv("extensions"),
          StartEv("field", <<Attr("type", S_uint16_t), Attr("name", S_type)>>), EndEv("field"),
        EndEv("message"),
      EndEv("messages"),
      EndEv("mavlink"), OtherEv>>

\* a dialect whose enum MODE is referenced, as a bitmask, by an extension
\* field only
ExtensionBitmaskDoc ==
    <<OtherEv, StartEv("mavlink", << >>),
      StartEv("enums", << >>),
        StartEv("enum", <<Attr("name", S_MODE)>>),
          StartEv("entry", <<Attr("value", DecText(1)), Attr("name", S_MODE_A)>>), EndEv("entry"),
        EndEv("enum"),
      EndEv("enums"),
      StartEv("messages", << >>),
        StartEv("message", <<Attr("name", S_M_A), Attr("id", DecText(7))>>),
          StartEv("field", <<Attr("type", S_uint16_t), Attr("name", S_x)>>), EndEv("field"),
          StartEv("extensions", << >>), EndEv("extensions"),
          StartEv("field", <<Attr("type", S_uint8_t), Attr("name", S_mode),
                             Attr("enum", S_MODE), Attr("display", S_bitmask)>>),
          EndEv("field"),
        EndEv("message"),
      EndEv("messages"),
      EndEv("mavlink"), OtherEv>>

\* documents that make the ingestion stop
UnknownElementDoc == <<OtherEv, StartEv("mavlink", << >>), StartEv("foo", << >>), EndEv("foo"), EndEv("mavlink")>>
MisnestedDoc == <<OtherEv, StartEv("mavlink", << >>), StartEv("field", << >>), EndEv("field"), EndEv("mavlink")>>
StrayTextDoc == <<OtherEv, StartEv("mavlink", << >>), StartEv("messages", << >>), CharsEv(S_x), EndEv("messages"), EndEv("mavlink")>>
BadIdDoc ==
    <<OtherEv, StartEv("mavlink", << >>), StartEv("messages", << >>),
      StartEv("message", <<Attr("name", S_M_A), Attr("id", S_x)>>), EndEv("message"),
      EndEv("messages"), EndEv("mavlink")>>
MalformedDoc ==
    <<OtherEv, StartEv("mavlink", << >>), StartEv("messages", << >>),
      StartEv("message", <<Attr("name", S_M_A), Attr("id", DecText(7))>>),
      StartEv("field", <<Attr("type", S_uint8_t), Attr("name", S_x)>>), EndEv("field"),
      EndEv("message"), ErrEv>>

\* an entry with a value attribute or without one
EntryEvents(name, value, explicit) ==
    <<StartEv("entry", (IF explicit THEN <<Attr("value", value)>> ELSE << >>)
                       \o <<Attr("name", name)>>),
      EndEv("entry")>>

\* the names of MAVLink's HEARTBEAT, of its fields and of their enums
S_HEARTBEAT == <<72, 69, 65, 82, 84, 66, 69, 65, 84>>
S_autopilot == <<97, 117, 116, 111, 112, 105, 108, 111, 116>>
S_base_mode == <<98, 97, 115, 101, 95, 109, 111, 100, 101>>
S_custom_mode == <<99, 117, 115, 116, 111, 109, 95, 109, 111, 100, 101>>
S_system_status == <<115, 121, 115, 116, 101, 109, 95, 115, 116, 97, 116, 117, 115>>
S_mavlink_version == <<109, 97, 118, 108, 105, 110, 107, 95, 118, 101, 114, 115, 105, 111, 110>>
S_MAV_TYPE == <<77, 65, 86, 95, 84, 89, 80, 69>>
S_MAV_AUTOPILOT == <<77, 65, 86, 95, 65, 85, 84, 79, 80, 73, 76, 79, 84>>
S_MAV_MODE_FLAG == <<77, 65, 86, 95, 77, 79, 68, 69, 95, 70, 76, 65, 71>>
S_MAV_STATE == <<77, 65, 86, 95, 83, 84, 65, 84, 69>>
S_MAV_TYPE_GENERIC == <<77, 65, 86, 95, 84, 89, 80, 69, 95, 71, 69, 78, 69, 82, 73, 67>>
S_MAV_TYPE_FIXED_WING == <<77, 65, 86, 95, 84, 89, 80, 69, 95, 70, 73, 88, 69, 68, 95, 87, 73, 78, 71>>
S_MAV_TYPE_QUADROTOR == <<77, 65, 86, 95, 84, 89, 80, 69, 95, 81, 85, 65, 68, 82, 79, 84, 79, 82>>
S_MAV_AUTOPILOT_GENERIC == <<77, 65, 86, 95, 65, 85, 84, 79, 80, 73, 76, 79, 84, 95, 71, 69, 78, 69, 82, 73, 67>>
S_MAV_AUTOPILOT_ARDUPILOTMEGA == <<77, 65, 86, 95, 65, 85, 84, 79, 80, 73, 76, 79, 84, 95, 65, 82, 68, 85, 80, 73, 76, 79, 84, 77, 69, 71, 65>>
S_MAV_STATE_UNINIT == <<77, 65, 86, 95, 83, 84, 65, 84, 69, 95, 85, 78, 73, 78, 73, 84>>
S_MAV_STATE_STANDBY == <<77, 65, 86, 95, 83, 84, 65, 84, 69, 95, 83, 84, 65, 78, 68, 66, 89>>
S_MAV_MODE_FLAG_X == <<77, 65, 86, 95, 77, 79, 68, 69, 95, 70, 76, 65, 71, 95>>

\* the entries of MAV_MODE_FLAG: SAFETY_ARMED 128 down to CUSTOM_MODE_ENABLED 1
\* (named by their bit here)
ModeFlagEvents ==
    Flatten([k \in 1..8 |->
        EntryEvents(S_MAV_MODE_FLAG_X \o <<64 + k>>, DecText(2 ^ (8 - k)), TRUE)])

HeartbeatEnums ==
    <<StartEv("enums", << >>), StartEv("enum", <<Attr("name", S_MAV_AUTOPILOT)>>)>>
    \o EntryEvents(S_MAV_AUTOPILOT_GENERIC, DecText(0), TRUE)
    \o EntryEvents(S_MAV_AUTOPILOT_ARDUPILOTMEGA, DecText(3), TRUE)
    \o <<EndEv("enum"), StartEv("enum", <<Attr("name", S_MAV_TYPE)>>)>>
    \o EntryEvents(S_MAV_TYPE_GENERIC, DecText(0), TRUE)
    \o EntryEvents(S_MAV_TYPE_FIXED_WING, DecText(1), TRUE)
    \o EntryEvents(S_MAV_TYPE_QUADROTOR, DecText(2), TRUE)
    \o <<EndEv("enum"), StartEv("enum", <<Attr("name", S_MAV_MODE_FLAG)>>)>>
    \o ModeFlagEvents
    \o <<EndEv("enum"), StartEv("enum", <<Attr("name", S_MAV_STATE)>>)>>
    \o EntryEvents(S_MAV_STATE_UNINIT, DecText(0), TRUE)
    \o EntryEvents(S_MAV_STATE_STANDBY, DecText(3), TRUE)
    \o <<EndEv("enum"), EndEv("enums")>>

HeartbeatField(attrs) == <<StartEv("field", attrs), EndEv("field")>>

\* message id 0 HEARTBEAT with its fields in the declared order type,
\* autopilot, base_mode, custom_mode, system_status, mavlink_version; the
\* types of base_mode and mavlink_version are given
HeartbeatDoc(base_mode_type, version_type) ==
    <<OtherEv, StartEv("mavlink", << >>)>>
    \o HeartbeatEnums
    \o <<StartEv("messages", << >>),
         StartEv("message", <<Attr("id", DecText(0)), Attr("name", S_HEARTBEAT)>>)>>
    \o HeartbeatField(<<Attr("type", S_uint8_t), Attr("name", S_type),
                        Attr("enum", S_MAV_TYPE)>>)
    \o HeartbeatField(<<Attr("type", S_uint8_t), Attr("name", S_autopilot),
                        Attr("enum", S_MAV_AUTOPILOT)>>)
    \o HeartbeatField(<<Attr("type", base_mode_type), Attr("name", S_base_mode),
                        Attr("enum", S_MAV_MODE_FLAG), Attr("display", S_bitmask)>>)
    \o HeartbeatField(<<Attr("type", S_uint32_t), Attr("name", S_custom_mode)>>)
    \o HeartbeatField(<<Attr("type", S_uint8_t), Attr("name", S_system_status),
                        Attr("enum", S_MAV_STATE)>>)
    \o HeartbeatField(<<Attr("type", version_type), Attr("name", S_mavlink_version)>>)
    \o <<EndEv("message"), EndEv("messages"), EndEv("mavlink"), OtherEv>>

\* the dialect of the scenario, with base_mode declared uint32_t
ScenarioHeartbeat == HeartbeatDoc(S_uint32_t, S_uint8_t)

\* MAVLink's common dialect declares base_mode uint8_t
CommonHeartbeat == HeartbeatDoc(S_uint8_t, S_uint8_t_mavlink_version)

OtherDocs ==
    <<EnumDoc, UnknownElementDoc, MisnestedDoc, StrayTextDoc, BadIdDoc, MalformedDoc,
      ScenarioHeartbeat, CommonHeartbeat, ExtensionBitmaskDoc>>

(***************************************************************************)
(* State.                                                                  *)
(***************************************************************************)
VARIABLES
    \* parse_profile
    emit_extensions,    \* the emit-extensions build feature
    inf,                \* the events the reader yields for the definition file
    parser,             \* the Vec of events read from the file
    pos,                \* the event the loop is at
    pc,                 \* "filter", "loop", "returned", "panicked"
    stack, profile, field, message, mavenum, entry, include, paramid,
    is_in_extension

ingestVars ==
    <<emit_extensions, inf, parser, pos, pc, stack, profile, field, message, mavenum,
      entry, include, paramid, is_in_extension>>

VARIABLES
    \* extra_crc
    crc_a, crc_b,           \* two messages of the IR
    crc_out_a, crc_out_b    \* their digests, once computed

crcVars == <<crc_a, crc_b, crc_out_a, crc_out_b>>

VARIABLES
    \* the generated codec of one message
    codec_msg,      \* the message of the IR the codec is generated from
    codec_enums,    \* the enums of its profile
    codec_len,      \* the emitted ENCODED_LEN
    codec_value,    \* the struct value given to ser
    codec_wire,     \* the bytes ser returned
    codec_input,    \* the bytes given to deser
    codec_result,   \* what deser returned
    codec_pc        \* "start", "built", "sent", "done"

codecVars ==
    <<codec_msg, codec_enums, codec_len, codec_value, codec_wire, codec_input,
      codec_result, codec_pc>>

VARIABLES
    \* MavMessage::parse of the generated modules
    disp_modules,   \* the dialects generated together, by definition file
    disp_id,        \* the message id parse was called with
    disp_payload,   \* the payload it was called with
    disp_result,    \* what parse returned
    disp_pc         \* "start", "called", "returned"

dispVars == <<disp_modules, disp_id, disp_payload, disp_result, disp_pc>>

VARIABLES
    \* the other functions of the generated MavMessage
    api_modules,    \* the dialects generated together, by definition file
    api_id,         \* the message id a function is called with
    api_name,       \* the message name message_id_from_name is called with
    api_result,     \* what the function returned
    api_pc          \* "start", "asked", and the function that returned

apiVars == <<api_modules, api_id, api_name, api_result, api_pc>>

VARIABLES
    \* main and generate
    gen_files,      \* the definitions directory: the includes and message id of each file
    gen_dir,        \* the directory entries main has not yet come to
    gen_modules,    \* the module cache: the keys inserted
    gen_stack,      \* the active calls of generate, the innermost last
    gen_parsed,     \* how often each file was given to parse_profile
    gen_written,    \* how often the units of each file were written
    gen_pc          \* "main", "done", "overflow"

genVars ==
    <<gen_files, gen_dir, gen_modules, gen_stack, gen_parsed, gen_written, gen_pc>>

VARIABLES
    \* merge_enums
    merge_profile,  \* the profile as parse_profile returned it
    merge_modules,  \* the cache: the profiles of its includes
    merge_once,     \* the profile after one merge_enums
    merge_twice,    \* the profile after a second merge_enums
    merge_pc        \* "start", "once", "twice"

mergeVars == <<merge_profile, merge_modules, merge_once, merge_twice, merge_pc>>

VARIABLES
    \* the two backends on one enum
    proto_enum,     \* the enum of the resolved profile
    proto_native,   \* the values MavEnum::emit_defs gave its entries
    proto_schema,   \* what MavEnum::emit_proto wrote, or its error
    proto_pc        \* "start", "native", "schema"

protoVars == <<proto_enum, proto_native, proto_schema, proto_pc>>

VARIABLES
    \* the schema unit's fields over the modules of one build
    ref_modules,    \* the cache: the profiles as ingested, by definition file
    ref_profile,    \* the profile of the first module after merge_enums
    ref_result,     \* what MavField::emit_proto returned for its field
    ref_pc          \* "start", "merged", "emitted", "failed"

refVars == <<ref_modules, ref_profile, ref_result, ref_pc>>

vars ==
    <<ingestVars, crcVars, codecVars, dispVars, apiVars, genVars, mergeVars, protoVars,
      refVars>>

nonIngestVars ==
    <<crcVars, codecVars, dispVars, apiVars, genVars, mergeVars, protoVars, refVars>>

nonCrcVars ==
    <<ingestVars, codecVars, dispVars, apiVars, genVars, mergeVars, protoVars, refVars>>

nonCodecVars ==
    <<ingestVars, crcVars, dispVars, apiVars, genVars, mergeVars, protoVars, refVars>>

nonDispVars ==
    <<ingestVars, crcVars, codecVars, apiVars, genVars, mergeVars, protoVars, refVars>>

nonApiVars ==
    <<ingestVars, crcVars, codecVars, dispVars, genVars, mergeVars, protoVars, refVars>>

nonGenVars ==
    <<ingestVars, crcVars, codecVars, dispVars, apiVars, mergeVars, protoVars, refVars>>

nonMergeVars ==
    <<ingestVars, crcVars, codecVars, dispVars, apiVars, genVars, protoVars, refVars>>

nonProtoVars ==
    <<ingestVars, crcVars, codecVars, dispVars, apiVars, genVars, mergeVars, refVars>>

nonRefVars ==
    <<ingestVars, crcVars, codecVars, dispVars, apiVars, genVars, mergeVars, protoVars>>

IdleIngest ==
    /\ inf = << >>
    /\ parser = << >>
    /\ pos = 1
    /\ pc = "idle"
    /\ stack = InitParser.stack
    /\ profile = InitParser.profile
    /\ field = InitParser.field
    /\ message = InitParser.message
    /\ mavenum = InitParser.mavenum
    /\ entry = InitParser.entry
    /\ include = InitParser.include
    /\ paramid = InitParser.paramid
    /\ is_in_extension = InitParser.is_in_extension

IdleCrc ==
    /\ crc_a = DefaultMessage
    /\ crc_b = DefaultMessage
    /\ crc_out_a = None
    /\ crc_out_b = None

IdleCodec ==
    /\ codec_msg = DefaultMessage
    /\ codec_enums = << >>
    /\ codec_len = 0
    /\ codec_value = << >>
    /\ codec_wire = << >>
    /\ codec_input = << >>
    /\ codec_result = None
    /\ codec_pc = "idle"

IdleDisp ==
    /\ disp_modules = << >>
    /\ disp_id = 0
    /\ disp_payload = << >>
    /\ disp_result = None
    /\ disp_pc = "idle"

IdleApi ==
    /\ api_modules = << >>
    /\ api_id = 0
    /\ api_name = << >>
    /\ api_result = None
    /\ api_pc = "idle"

IdleGen ==
    /\ gen_files = << >>
    /\ gen_dir = << >>
    /\ gen_modules = {}
    /\ gen_stack = << >>
    /\ gen_parsed = << >>
    /\ gen_written = << >>
    /\ gen_pc = "idle"

IdleMerge ==
    /\ merge_profile = EmptyProfile
    /\ merge_modules = << >>
    /\ merge_once = None
    /\ merge_twice = None
    /\ merge_pc = "idle"

IdleProto ==
    /\ proto_enum = DefaultEnum
    /\ proto_native = << >>
    /\ proto_schema = None
    /\ proto_pc = "idle"

IdleRefs ==
    /\ ref_modules = << >>
    /\ ref_profile = EmptyProfile
    /\ ref_result = None
    /\ ref_pc = "idle"

\* the locals of the loop as the record the handlers take
Locals ==
    [stack |-> stack, profile |-> profile, field |-> field, message |-> message,
     mavenum |-> mavenum, entry |-> entry, include |-> include, paramid |-> paramid,
     is_in_extension |-> is_in_extension, panicked |-> FALSE, broke |-> FALSE]

SetLocals(s) ==
    /\ stack' = s.stack
    /\ profile' = s.profile
    /\ field' = s.field
    /\ message' = s.message
    /\ mavenum' = s.mavenum
    /\ entry' = s.entry
    /\ include' = s.include
    /\ paramid' = s.paramid
    /\ is_in_extension' = s.is_in_extension

InitIngest ==
    /\ emit_extensions \in BOOLEAN
    /\ \/ \E d \in MessageDecls : WellFormedDecl(d) /\ inf = MessageDoc(d)
       \/ \E d1, d2 \in TwoFieldDecls : inf = TwoMessageDoc(d1, d2)
       \/ \E k \in DOMAIN OtherDocs : inf = OtherDocs[k]
    /\ parser = inf
    /\ pos = 1
    /\ pc = "filter"
    /\ stack = InitParser.stack
    /\ profile = InitParser.profile
    /\ field = InitParser.field
    /\ message = InitParser.message
    /\ mavenum = InitParser.mavenum
    /\ entry = InitParser.entry
    /\ include = InitParser.include
    /\ paramid = InitParser.paramid
    /\ is_in_extension = InitParser.is_in_extension
    /\ IdleCrc
    /\ IdleCodec
    /\ IdleDisp
    /\ IdleApi
    /\ IdleGen
    /\ IdleMerge
    /\ IdleProto
    /\ IdleRefs

\* xml_filter.filter(&mut parser)
Filter ==
    /\ pc = "filter"
    /\ LET f == Filtered(parser, emit_extensions) IN
       IF f.panicked
       THEN pc' = "panicked" /\ UNCHANGED parser
       ELSE pc' = "loop" /\ parser' = f.kept
    /\ UNCHANGED <<emit_extensions, inf, pos, stack, profile, field, message, mavenum,
                   entry, include, paramid, is_in_extension>>
    /\ UNCHANGED nonIngestVars

AtEvent(type) == pc = "loop" /\ pos <= Len(parser) /\ parser[pos].type = type

\* one turn of the loop with handler result s
Turn(s) ==
    /\ SetLocals(s)
    /\ pc' = IF s.panicked THEN "panicked" ELSE "loop"
    /\ pos' = IF s.broke THEN Len(parser) + 1 ELSE pos + 1
    /\ UNCHANGED <<emit_extensions, inf, parser>>
    /\ UNCHANGED nonIngestVars

StartElement == AtEvent("Start") /\ Turn(OnStartElement(Locals, parser[pos]))

Characters == AtEvent("Chars") /\ Turn(OnCharacters(Locals, parser[pos]))

EndElement == AtEvent("End") /\ Turn(OnEndElement(Locals))

ErrorEvent == AtEvent("Err") /\ Turn(OnError(Locals))

OtherEvent == AtEvent("Other") /\ Turn(Locals)

\* profile.update_enums(), the value parse_profile returns
Return ==
    /\ pc = "loop"
    /\ pos > Len(parser)
    /\ pc' = "returned"
    /\ profile' = update_enums(profile)
    /\ UNCHANGED <<emit_extensions, inf, parser, pos, stack, field, message, mavenum,
                   entry, include, paramid, is_in_extension>>
    /\ UNCHANGED nonIngestVars

Init == InitIngest

Next ==
    \/ Filter
    \/ StartElement
    \/ Characters
    \/ EndElement
    \/ ErrorEvent
    \/ OtherEvent
    \/ Return

Spec == Init /\ [][Next]_vars

(***************************************************************************)
(* Field layout claims.                                                    *)
(***************************************************************************)
\* the width of one element of the field's type
ElementWidth(f) == PrimLen(f.mavtype.prim)

\* declared field j is laid out before declared field k
Precedes(fs, j, k) ==
    \/ ~fs[j].is_extension /\ fs[k].is_extension
    \/ /\ ~fs[j].is_extension /\ ~fs[k].is_extension
       /\ \/ ElementWidth(fs[j]) > ElementWidth(fs[k])
          \/ ElementWidth(fs[j]) = ElementWidth(fs[k]) /\ j < k
    \/ fs[j].is_extension /\ fs[k].is_extension /\ j < k

Rank(fs, k) == 1 + Cardinality({j \in DOMAIN fs : Precedes(fs, j, k)})

IsPlanned(declared, stored) ==
    /\ Len(stored) = Len(declared)
    /\ \A k \in DOMAIN declared : stored[Rank(declared, k)] = declared[k]

ClosingMessage == AtEvent("End") /\ Last(stack) = Some("Message")

\* C1: when a message element closes, the message is stored with its fields
\* permuted so that the non-extension fields come first, by descending width
\* of one element and in declaration order among equal widths, and the
\* extension fields follow in declaration order
C1_PlannedOrder ==
    [][ClosingMessage =>
          /\ Len(profile'.messages) = Len(profile.messages) + 1
          /\ IsPlanned(message.fields, profile'.messages[Len(profile'.messages)].fields)]_vars

\* a stored message with two non-extension fields of equal element width, one
\* of them an array, and an extension field wider than a non-extension field
C1_Witness ==
    \E m \in DOMAIN profile.messages :
        LET st == profile.messages[m].fields IN
        /\ \E i, j \in DOMAIN st :
              /\ i < j /\ ~st[i].is_extension /\ ~st[j].is_extension
              /\ ElementWidth(st[i]) = ElementWidth(st[j])
              /\ st[i].mavtype.array # st[j].mavtype.array
        /\ \E i, j \in DOMAIN st :
              /\ ~st[i].is_extension /\ st[j].is_extension
              /\ ElementWidth(st[j]) > ElementWidth(st[i])

\* the declared names of the stored fields of the one message of the profile
StoredNames == [i \in DOMAIN profile.messages[1].fields |-> profile.messages[1].fields[i].raw_name]

\* the stored order that puts base_mode and custom_mode first
WideFirst ==
    <<S_base_mode, S_custom_mode, S_type, S_autopilot, S_system_status, S_mavlink_version>>

Ingested(doc) == pc = "returned" /\ parser = doc

\* C13 as amended: the scenario's HEARTBEAT, with base_mode declared
\* uint32_t, is planned as base_mode, custom_mode, type, autopilot,
\* system_status, mavlink_version and its encoded length is 12; MAVLink's
\* HEARTBEAT, with base_mode declared uint8_t, is planned as custom_mode,
\* type, autopilot, base_mode, system_status, mavlink_version and its encoded
\* length is 9
C13_HeartbeatPlan ==
    /\ Ingested(ScenarioHeartbeat) =>
          /\ profile.messages[1].id = 0
          /\ StoredNames = WideFirst
          /\ SeqSum([i \in 1..6 |-> MavTypeLen(profile.messages[1].fields[i].mavtype)]) = 12
    /\ Ingested(CommonHeartbeat) =>
          /\ profile.messages[1].id = 0
          /\ StoredNames = <<S_custom_mode, S_type, S_autopilot, S_base_mode,
                             S_system_status, S_mavlink_version>>
          /\ SeqSum([i \in 1..6 |-> MavTypeLen(profile.messages[1].fields[i].mavtype)]) = 9

\* the scenario's dialect ingested, base_mode stored as a 4-byte flag set
C13_Witness ==
    /\ Ingested(ScenarioHeartbeat)
    /\ Len(profile.messages) = 1
    /\ profile.messages[1].fields[1].raw_name = S_base_mode
    /\ ElementWidth(profile.messages[1].fields[1]) = 4
    /\ IsSome(profile.messages[1].fields[1].display)
    /\ Len(profile.enums) = 4

\* C13: for the dialect defining message id 0 HEARTBEAT with the fields
\* type:uint8_t, autopilot:uint8_t, base_mode:uint32_t (enum, bitmask),
\* custom_mode:uint32_t, system_status:uint8_t, mavlink_version:uint8_t the
\* planned order is base_mode, custom_mode, type, autopilot, system_status,
\* mavlink_version and the encoded length is 9
C13_HeartbeatNine ==
    Ingested(ScenarioHeartbeat) =>
        /\ StoredNames = WideFirst
        /\ SeqSum([i \in 1..6 |-> MavTypeLen(profile.messages[1].fields[i].mavtype)]) = 9

(***************************************************************************)
(* Ingestion claims.                                                       *)
(***************************************************************************)
\* the parent-compatibility table: the kinds a kind may stand directly under,
\* None for the top of the document
Parents(kind) ==
    CASE kind = "Mavlink" -> {None}
      [] kind \in {"Version", "Dialect", "Include", "Enums", "Messages"} -> {Some("Mavlink")}
      [] kind = "Enum" -> {Some("Enums")}
      [] kind \in {"Entry"} -> {Some("Enum")}
      [] kind = "Param" -> {Some("Entry")}
      [] kind = "Message" -> {Some("Messages")}
      [] kind \in {"Field", "Extensions"} -> {Some("Message")}
      [] kind \in {"Description", "Deprecated", "Wip"} ->
            {Some("Entry"), Some("Message"), Some("Enum")}

\* the open kinds are a chain of the table from the dialect root
Chain(st) ==
    /\ st # << >> => None \in Parents(st[1])
    /\ \A k \in 1..(Len(st) - 1) : Some(st[k]) \in Parents(st[k + 1])

ElementKinds ==
    {"Version", "Mavlink", "Dialect", "Include", "Enums", "Enum", "Entry", "Description",
     "Param", "Messages", "Message", "Field", "Deprecated", "Wip", "Extensions"}

\* is_valid_parent permits what the table permits
TableKept ==
    \A kind \in ElementKinds, p \in {None} \cup {Some(k) : k \in ElementKinds} :
        is_valid_parent(p, kind) <=> p \in Parents(kind)

\* the event the loop has just handled
Handled == parser[pos - 1]

\* C25: the stack of open kinds is at every point a chain of the
\* parent-compatibility table with the dialect root at the bottom; an open
\* event with an unknown tag, or with a kind not permitted under the top of
\* the stack, aborts the ingestion and pushes nothing, any other open event
\* pushes its kind, and every close event pops exactly one kind
C25_StackChain ==
    /\ [](Chain(stack) /\ TableKept)
    /\ [][/\ AtEvent("Start") =>
              LET id == identify_element(parser[pos].name) IN
              IF id = None \/ Last(stack) \notin Parents(Unwrap(id))
              THEN pc' = "panicked" /\ stack' = stack
              ELSE stack' = Append(stack, Unwrap(id))
           /\ AtEvent("End") =>
              stack # << >> /\ stack' = SubSeq(stack, 1, Len(stack) - 1)]_vars

\* a field opened directly under the dialect root has stopped the ingestion
C25_Witness ==
    /\ pc = "panicked"
    /\ pos > 1
    /\ Handled.type = "Start"
    /\ identify_element(Handled.name) = Some("Field")
    /\ stack = <<"Mavlink">>

\* the k-th event of the file opens an element of the tag
Opens(k, tag) == inf[k].type = "Start" /\ inf[k].name = tag

Closes(k, tag) == inf[k].type = "End" /\ inf[k].name = tag

\* where the j-th message of the file opens, and where it closes
MessageOpen(j) ==
    CHOOSE k \in DOMAIN inf :
        Opens(k, "message") /\ Cardinality({l \in 1..k : Opens(l, "message")}) = j

MessageClose(j) ==
    CHOOSE k \in DOMAIN inf :
        Closes(k, "message") /\ Cardinality({l \in 1..k : Closes(l, "message")}) = j

\* the value of the attribute of the event at k
AttrOf(k, n) == inf[k].attrs[CHOOSE a \in DOMAIN inf[k].attrs : inf[k].attrs[a].name = n].value

\* where the field of the declared name opens inside the j-th message
FieldOpen(j, raw_name) ==
    CHOOSE k \in MessageOpen(j)..MessageClose(j) :
        Opens(k, "field") /\ AttrOf(k, "name") = raw_name

\* an extensions marker is opened inside the j-th message before event k
MarkerBefore(j, k) == \E q \in MessageOpen(j)..k : Opens(q, "extensions")

\* C26: with extensions enabled the extension flag of a field is true
\* exactly when an extensions marker was opened earlier inside the same
\* message; the in-extension flag is set only inside a message and is
\* cleared when the message closes, so a later message's fields are tagged
\* only after a marker of its own
C26_ExtensionFlag ==
    /\ [](emit_extensions =>
            /\ \A j \in DOMAIN profile.messages : \A f \in DOMAIN profile.messages[j].fields :
                  profile.messages[j].fields[f].is_extension
                      <=> MarkerBefore(j, FieldOpen(j, profile.messages[j].fields[f].raw_name))
            /\ is_in_extension => \E k \in DOMAIN stack : stack[k] = "Message")
    /\ [][(emit_extensions /\ AtEvent("End") /\ Last(stack) = Some("Message"))
              => is_in_extension' = FALSE]_vars

\* a first message with the marker before its fields and a second one
\* without a marker
C26_Witness ==
    /\ emit_extensions
    /\ pc = "returned"
    /\ Len(profile.messages) = 2
    /\ Opens(MessageOpen(1) + 1, "extensions")
    /\ \A f \in DOMAIN profile.messages[1].fields : profile.messages[1].fields[f].is_extension
    /\ Len(profile.messages[2].fields) = 2
    /\ \A f \in DOMAIN profile.messages[2].fields : ~profile.messages[2].fields[f].is_extension

\* the profile without the extension fields of its messages
StripExtensions(prof) ==
    [prof EXCEPT !.messages =
        [j \in DOMAIN prof.messages |->
            [prof.messages[j] EXCEPT !.fields = SelectSeq(@, NotExtension)]]]

\* the profile with no enum marked as a flag set
Unmarked(prof) ==
    [prof EXCEPT !.enums =
        [k \in DOMAIN prof.enums |-> [prof.enums[k] EXCEPT !.bitfield = None]]]

\* every message the events open is closed, and is in the profile
Balanced(events) ==
    LET opened == {k \in DOMAIN events : events[k].type = "Start" /\ events[k].name = "message"}
        closed == {k \in DOMAIN events : events[k].type = "End" /\ events[k].name = "message"}
    IN  /\ Cardinality(opened) = Cardinality(closed)
        /\ Cardinality(closed) = Len(profile.messages)
        /\ Cardinality(closed) = Cardinality({k \in DOMAIN inf : Closes(k, "message")})

NoExtensionField ==
    \A j \in DOMAIN profile.messages : \A f \in DOMAIN profile.messages[j].fields :
        ~profile.messages[j].fields[f].is_extension

\* the file is ingested in the mode that excludes extensions, and is ingested
\* in the other mode as well
ExcludedAndIncluded ==
    pc = "returned" /\ ~emit_extensions /\ ~parse_profile(inf, TRUE).panicked

\* C27: the profile ingested in the mode that excludes extensions is the
\* profile ingested in the mode that includes them with every extension field
\* removed and the flag-set marks of the enums set anew from the fields that
\* remain; no field of it has the extension flag, and the filtered events
\* close every message
C27_ExcludedIsStripped ==
    ExcludedAndIncluded =>
        /\ profile = update_enums(Unmarked(StripExtensions(parse_profile(inf, TRUE).profile)))
        /\ NoExtensionField
        /\ Balanced(parser)

\* C27 as stated: the profile equals the one of the including mode with the
\* extension fields removed
C27_ExcludedEqualsStripped ==
    ExcludedAndIncluded =>
        /\ profile = StripExtensions(parse_profile(inf, TRUE).profile)
        /\ NoExtensionField
        /\ Balanced(parser)

\* a file with a field after an extensions marker, ingested without it
C27_Witness ==
    /\ ExcludedAndIncluded
    /\ \E k \in DOMAIN inf : Opens(k, "extensions") /\ k + 2 <= Len(inf) /\ Opens(k + 2, "field")
    /\ Len(parser) < Len(inf)
    /\ Len(profile.messages) = 2
    /\ profile.messages[1].fields # << >>

\* how many elements are open before the k-th event
Depth(events, k) ==
    Cardinality({l \in 1..(k - 1) : events[l].type = "Start"})
        - Cardinality({l \in 1..(k - 1) : events[l].type = "End"})

\* the kind of the element the k-th event stands directly in, None at the top
ParentKind(events, k) ==
    LET outer == {j \in 1..(k - 1) :
                    events[j].type = "Start" /\ Depth(events, j) = Depth(events, k) - 1}
    IN  IF outer = {} THEN None
        ELSE identify_element(events[CHOOSE j \in outer : \A l \in outer : l <= j].name)

\* the message id of the open event does not parse
BadId(e) ==
    /\ e.name = "message"
    /\ \E a \in DOMAIN e.attrs : e.attrs[a].name = "id" /\ ParseDecimal(e.attrs[a].value) = None

\* a structural violation in the events: malformed markup, an unrecognized
\* element, a mis-nested element or an unparseable attribute value
Violates(events) ==
    \E k \in DOMAIN events :
        \/ events[k].type = "Err"
        \/ /\ events[k].type = "Start"
           /\ \/ identify_element(events[k].name) = None
              \/ ParentKind(events, k) \notin Parents(Unwrap(identify_element(events[k].name)))
              \/ BadId(events[k])

\* C24: when the ingestion of a dialect file meets a structural violation
\* the compilation aborts: parse_profile does not return a profile for
\* generate to emit the two units from
C24_ViolationAborts == pc = "returned" => ~Violates(parser)

(***************************************************************************)
(* extra_crc: the compatibility digest of a message.                       *)
(***************************************************************************)
RECURSIVE BitXor(_, _)
BitXor(a, b) ==
    IF a = 0 THEN b ELSE IF b = 0 THEN a
    ELSE ((a + b) % 2) + 2 * BitXor(a \div 2, b \div 2)

RECURSIVE BitAnd(_, _)
BitAnd(a, b) ==
    IF a = 0 \/ b = 0 THEN 0
    ELSE ((a % 2) * (b % 2)) + 2 * BitAnd(a \div 2, b \div 2)

RECURSIVE BitOr(_, _)
BitOr(a, b) ==
    IF a = 0 THEN b ELSE IF b = 0 THEN a
    ELSE (IF a % 2 = 1 \/ b % 2 = 1 THEN 1 ELSE 0) + 2 * BitOr(a \div 2, b \div 2)

\* CRCu16::crc16mcrf4cc(): the initial register of CRC-16/MCRF4XX
crc16mcrf4cc == 65535

\* one bit of the reflected CRC with polynomial 0x1021 (0x8408 reflected)
CrcShift(crc) == IF crc % 2 = 1 THEN BitXor(crc \div 2, 33800) ELSE crc \div 2

CrcByte(crc, byte) ==
    CrcShift(CrcShift(CrcShift(CrcShift(CrcShift(CrcShift(CrcShift(CrcShift(
        BitXor(crc, byte)))))))))

\* crc.digest(bytes); the register is a u16 after every byte
RECURSIVE digest(_, _)
digest(crc, bytes) ==
    IF bytes = << >> THEN crc
    ELSE LET next == CrcByte(crc, Head(bytes))
         IN  IF next \in 0..65535 THEN digest(next, Tail(bytes)) ELSE next

\* size as u8
AsU8(n) == n % 256

\* the bytes one field adds to the digest
FieldCrcBytes(f) ==
    primitive_type(f.mavtype) \o <<32>>
    \o (IF f.name = S_mavtype THEN S_type ELSE f.name) \o <<32>>
    \o (IF f.mavtype.array THEN <<AsU8(f.mavtype.size)>> ELSE << >>)

\* pub fn extra_crc(msg: &MavMessage) -> u8
extra_crc(msg) ==
    LET f == SortByCompare(SelectSeq(msg.fields, NotExtension))
        bytes == msg.name \o <<32>> \o Flatten([i \in DOMAIN f |-> FieldCrcBytes(f[i])])
        crcval == digest(crc16mcrf4cc, bytes)
    IN  BitXor(crcval % 256, crcval \div 256) % 256

\* the message names of the digested declarations
CrcNames == <<S_M_A, S_MODE>>

\* the one message of a parsed document
ParsedMessage(events, emit_ext) == parse_profile(events, emit_ext).profile.messages[1]

\* a message of the IR with the same declaration as msg and other generated
\* identifiers (MavMessage and MavField are public structs with public fields)
Renamed(msg, variant) ==
    CASE variant = "parsed"  -> msg
      [] variant = "message" -> [msg EXCEPT !.name = msg.raw_name]
      [] variant = "fields"  ->
            [msg EXCEPT !.fields = [i \in DOMAIN msg.fields |->
                                       [msg.fields[i] EXCEPT !.name = @ \o <<95>>]]]

InitCrc ==
    /\ emit_extensions \in BOOLEAN
    /\ IdleIngest
    /\ \E d \in MessageDecls, k \in DOMAIN CrcNames, variant \in {"parsed", "message", "fields"} :
          /\ WellFormedDecl(d)
          /\ crc_a = ParsedMessage(NamedDoc(CrcNames[k], d), emit_extensions)
          /\ crc_b = Renamed(crc_a, variant)
    /\ crc_out_a = None
    /\ crc_out_b = None
    /\ IdleCodec
    /\ IdleDisp
    /\ IdleApi
    /\ IdleGen
    /\ IdleMerge
    /\ IdleProto
    /\ IdleRefs

DigestA ==
    /\ crc_out_a = None
    /\ crc_out_a' = Some(extra_crc(crc_a))
    /\ UNCHANGED <<nonCrcVars, crc_a, crc_b, crc_out_b>>

DigestB ==
    /\ crc_out_b = None
    /\ crc_out_b' = Some(extra_crc(crc_b))
    /\ UNCHANGED <<nonCrcVars, crc_a, crc_b, crc_out_a>>

NextCrc ==
    \/ DigestA
    \/ DigestB

SpecCrc == InitCrc /\ [][NextCrc]_vars

\* the byte stream of the declaration: declared names, wire order
DeclaredFieldBytes(f) ==
    primitive_type(f.mavtype) \o <<32>> \o f.raw_name \o <<32>>
    \o (IF f.mavtype.array THEN <<f.mavtype.size % 256>> ELSE << >>)

DeclaredStream(msg) ==
    LET f == SelectSeq(msg.fields, NotExtension)
    IN  msg.raw_name \o <<32>> \o Flatten([i \in DOMAIN f |-> DeclaredFieldBytes(f[i])])

Fold(crcval) == BitXor(crcval % 256, crcval \div 256)

\* C2: the digest of a message is the fold of the CRC-16/MCRF4XX of its
\* declared name, a space and, for each non-extension field in wire order,
\* its primitive type name, a space, its declared name, a space and the
\* length byte of an array
C2_DeclaredNameDigest ==
    IsSome(crc_out_a) => Unwrap(crc_out_a) = Fold(digest(crc16mcrf4cc, DeclaredStream(crc_a)))

SameDeclaration(a, b) ==
    /\ a.raw_name = b.raw_name
    /\ Len(a.fields) = Len(b.fields)
    /\ \A i \in DOMAIN a.fields :
          /\ a.fields[i].raw_name = b.fields[i].raw_name
          /\ a.fields[i].mavtype = b.fields[i].mavtype
          /\ a.fields[i].is_extension = b.fields[i].is_extension

Ok(v) == [kind |-> "Ok", value |-> v, enum_type |-> << >>, raw |-> 0]
Err(kind, enum_type, raw) == [kind |-> kind, value |-> << >>, enum_type |-> enum_type, raw |-> raw]

\* MavMessage::emit_name_types: encoded_payload_len, emitted as ENCODED_LEN
ENCODED_LEN(msg) == SeqSum([i \in DOMAIN msg.fields |-> MavTypeLen(msg.fields[i].mavtype)])

\* MavEnum::emit_defs: the value of each entry
emit_defs(enm) ==
    LET has_enum_values == \A i \in DOMAIN enm.entries : IsSome(enm.entries[i].value)
    IN  [i \in DOMAIN enm.entries |->
            IF has_enum_values THEN Unwrap(enm.entries[i].value) ELSE i - 1]

\* the enum a field's type names
EnumNamed(enums, name) == enums[CHOOSE i \in DOMAIN enums : enums[i].name = name]

\* how the reader and the writer of a field treat it
FieldKind(f) ==
    IF IsSome(f.enumtype)
    THEN IF IsSome(f.display)
         THEN IF Unwrap(f.display) = S_bitmask THEN "bitmask" ELSE "panic"
         ELSE IF f.mavtype.array THEN "raw" ELSE "enum"
    ELSE "raw"

\* the generator panics on a display hint other than "bitmask"
EmitPanics(msg) == \E i \in DOMAIN msg.fields : FieldKind(msg.fields[i]) = "panic"

IsSigned(k) == k \in {"Int8", "Int16", "Int32", "Int64"}

\* (mutant of put_le: the most significant byte is put first)
RECURSIVE put_be(_, _)
put_be(v, w) == IF w = 0 THEN << >> ELSE put_be(v \div 256, w - 1) \o <<v % 256>>

\* put_<t>_le: the little-endian two's-complement bytes of v
RECURSIVE put_le(_, _)
put_le(v, w) == IF w = 0 THEN << >> ELSE <<v % 256>> \o put_le(v \div 256, w - 1)

\* (mutant of get_le: the bytes are read most significant first)
RECURSIVE get_be(_, _)
get_be(bytes, signed) ==
    IF Len(bytes) = 1
    THEN (IF signed /\ bytes[1] >= 128 THEN bytes[1] - 256 ELSE bytes[1])
    ELSE bytes[Len(bytes)] + 256 * get_be(SubSeq(bytes, 1, Len(bytes) - 1), signed)

\* get_<t>_le
RECURSIVE get_le(_, _)
get_le(bytes, signed) ==
    IF Len(bytes) = 1
    THEN (IF signed /\ bytes[1] >= 128 THEN bytes[1] - 256 ELSE bytes[1])
    ELSE bytes[1] + 256 * get_le(Tail(bytes), signed)

\* MavType::rust_writer: the bytes put for a field value
MavType_rust_writer(t, cells) ==
    Flatten([i \in DOMAIN cells |-> put_le(cells[i], PrimLen(t.prim))])

\* MavField::rust_writer: bits() of flags, a cast of an enumerant, the value
MavField_rust_writer(f, cells) ==
    IF FieldKind(f) = "panic" THEN << >> ELSE MavType_rust_writer(f.mavtype, cells)

\* MavMessage::emit_serialize_vars: the body of ser
ser(msg, value) ==
    Flatten([i \in DOMAIN msg.fields |-> MavField_rust_writer(msg.fields[i], value[i])])

\* the elements an array reader gets; buf.get_* panics on an exhausted buffer
RECURSIVE ReadElements(_, _, _, _)
ReadElements(k, n, buf, acc) ==
    IF n = 0 THEN [panic |-> FALSE, cells |-> acc, buf |-> buf]
    ELSE IF Len(buf) < PrimLen(k) THEN [panic |-> TRUE, cells |-> acc, buf |-> buf]
    ELSE ReadElements(k, n - 1, SubSeq(buf, PrimLen(k) + 1, Len(buf)),
                      Append(acc, get_le(SubSeq(buf, 1, PrimLen(k)), IsSigned(k))))

\* MavType::rust_reader into a field holding cur: a scalar is assigned, the
\* elements of a slice are assigned by index, those of a Vec are pushed
MavType_rust_reader(t, buf, cur) ==
    IF ~t.array THEN ReadElements(t.prim, 1, buf, << >>)
    ELSE IF t.size > VecThreshold THEN ReadElements(t.prim, t.size, buf, cur)
    ELSE ReadElements(t.prim, t.size, buf, << >>)

\* <enum>::all().bits()
RECURSIVE BitOrAll(_)
BitOrAll(vals) == IF vals = << >> THEN 0 ELSE BitOr(Head(vals), BitOrAll(Tail(vals)))

all_bits(enm) == BitOrAll(emit_defs(enm))

\* <flags>::from_bits: None when a bit is no flag
from_bits(bits, enm) == IF BitAnd(bits, all_bits(enm)) = bits THEN Some(bits) ELSE None

\* (mutant of from_primitive: every raw value is taken as an enumerant)
from_primitive_Any(tmp, enm) == Some(tmp)

\* FromPrimitive::from_<t>: the enumerant whose value is tmp
from_primitive(tmp, enm) ==
    IF \E i \in DOMAIN enm.entries : emit_defs(enm)[i] = tmp THEN Some(tmp) ELSE None

\* (mutant of FlagBits: the raw value is not masked)
FlagBits_Unmasked(tmp, enm) == tmp

\* tmp & <flags>::all().bits()
FlagBits(tmp, enm) == BitAnd(tmp, all_bits(enm))

\* MavField::rust_reader: one field read from buf into the struct
MavField_rust_reader(f, enums, buf, cur) ==
    LET r == MavType_rust_reader(f.mavtype, buf, cur)
        enm == EnumNamed(enums, Unwrap(f.enumtype))
        tmp == r.cells[1]
    IN
    IF r.panic THEN [res |-> Err("Panic", << >>, 0), buf |-> r.buf]
    ELSE CASE FieldKind(f) = "bitmask" ->
                IF IsSome(from_bits(FlagBits(tmp, enm), enm))
                THEN [res |-> Ok(from_bits(FlagBits(tmp, enm), enm)), buf |-> r.buf]
                ELSE [res |-> Err("InvalidFlag", Unwrap(f.enumtype), tmp), buf |-> r.buf]
           [] FieldKind(f) = "enum" ->
                IF IsSome(from_primitive(tmp, enm))
                THEN [res |-> Ok(from_primitive(tmp, enm)), buf |-> r.buf]
                ELSE [res |-> Err("InvalidEnum", Unwrap(f.enumtype), tmp), buf |-> r.buf]
           [] OTHER -> [res |-> Ok(r.cells), buf |-> r.buf]

\* the Default of a field of the generated struct: zero, the first entry of
\* an enum, a zeroed slice, an empty Vec
DefaultCells(f, enums) ==
    CASE FieldKind(f) \in {"bitmask", "enum"} ->
            <<emit_defs(EnumNamed(enums, Unwrap(f.enumtype)))[1]>>
      [] OTHER ->
            IF ~f.mavtype.array THEN <<0>>
            ELSE IF f.mavtype.size > VecThreshold THEN << >>
            ELSE [k \in 1..f.mavtype.size |-> 0]

\* Self::default()
DefaultStruct(msg, enums) == [i \in DOMAIN msg.fields |-> DefaultCells(msg.fields[i], enums)]

RECURSIVE ReadFields(_, _, _, _, _)
ReadFields(fields, enums, buf, struct, i) ==
    IF i > Len(fields) THEN Ok(struct)
    ELSE LET r == MavField_rust_reader(fields[i], enums, buf, struct[i])
         IN  IF r.res.kind # "Ok" THEN r.res
             ELSE ReadFields(fields, enums, r.buf, [struct EXCEPT ![i] = r.res.value], i + 1)

\* (mutant of payload_buf: the input is not padded)
payload_buf_Unpadded(input, len) == input

\* payload_buf: the input copied into a zeroed buffer of ENCODED_LEN bytes
payload_buf(input, len) == input \o [k \in 1..(len - Len(input)) |-> 0]

\* MavMessage::emit_deserialize_vars: the body of deser
deser(msg, enums, input) ==
    IF msg.fields = << >> THEN Ok(DefaultStruct(msg, enums))
    ELSE LET buf == IF Len(input) < ENCODED_LEN(msg)
                    THEN payload_buf(input, ENCODED_LEN(msg))
                    ELSE input
         IN  ReadFields(msg.fields, enums, buf, DefaultStruct(msg, enums), 1)

(***************************************************************************)
(* The codec under test: dialects, struct values and received bytes.       *)
(***************************************************************************)
S_FLAGS == <<70, 76, 65, 71, 83>>
S_FLAGS_A == <<70, 76, 65, 71, 83, 95, 65>>
S_FLAGS_B == <<70, 76, 65, 71, 83, 95, 66>>

MaxCodecFields == 2

\* the fields of the codec dialects: <field type=.. enum=.. display=..>
CodecFieldAttrs ==
    << <<Attr("type", S_uint16_t)>>,
       <<Attr("type", S_uint8_t), Attr("enum", S_MODE)>>,
       <<Attr("type", S_uint8_t), Attr("enum", S_FLAGS), Attr("display", S_bitmask)>>,
       <<Attr("type", ArrayText(S_uint8_t, 2)), Attr("enum", S_MODE)>>,
       <<Attr("type", ArrayText(S_uint8_t, VecThreshold + 1))>>,
       <<Attr("type", S_int8_t)>> >>

CodecDecls ==
    { [kinds |-> ks, ext |-> x, explicit |-> e] :
        ks \in UNION {[1..k -> DOMAIN CodecFieldAttrs] : k \in 0..MaxCodecFields},
        x \in NoMarker..MaxCodecFields, e \in BOOLEAN }

CodecFieldEvents(d, i) ==
    Marker(d, i - 1)
    \o <<StartEv("field", CodecFieldAttrs[d.kinds[i]] \o <<Attr("name", FieldNameAt(i))>>),
         EndEv("field")>>

\* enum MODE (entries 1, 2, or unnumbered), enum FLAGS (0x1, 0x2), one message
CodecDoc(d) ==
    <<OtherEv, StartEv("mavlink", << >>), StartEv("enums", << >>),
      StartEv("enum", <<Attr("name", S_MODE)>>)>>
    \o EntryEvents(S_MODE_A, DecText(1), d.explicit)
    \o EntryEvents(S_MODE_B, DecText(2), d.explicit)
    \o <<EndEv("enum"), StartEv("enum", <<Attr("name", S_FLAGS)>>)>>
    \o EntryEvents(S_FLAGS_A, DecText(1), TRUE)
    \o EntryEvents(S_FLAGS_B, S_0x2, TRUE)
    \o <<EndEv("enum"), EndEv("enums"), StartEv("messages", << >>),
         StartEv("message", <<Attr("name", S_M_A), Attr("id", DecText(7))>>)>>
    \o Flatten([i \in DOMAIN d.kinds |-> CodecFieldEvents(d, i)])
    \o Marker(d, Len(d.kinds))
    \o <<EndEv("message"), EndEv("messages"), EndEv("mavlink"), OtherEv>>

\* the values of a scalar of the given type the model gives to ser
ScalarSamples(k) ==
    IF IsSigned(k) THEN {0 - 1, 5}
    ELSE IF PrimLen(k) = 1 THEN {0, 200} ELSE {0, 258}

\* the values of a field of the struct the model gives to ser
FieldValues(f, enums) ==
    CASE FieldKind(f) = "bitmask" ->
            {<<0>>, <<all_bits(EnumNamed(enums, Unwrap(f.enumtype)))>>}
      [] FieldKind(f) = "enum" ->
            LET defs == emit_defs(EnumNamed(enums, Unwrap(f.enumtype)))
            IN  {<<defs[i]>> : i \in DOMAIN defs}
      [] OTHER ->
            IF ~f.mavtype.array THEN {<<v>> : v \in ScalarSamples(f.mavtype.prim)}
            ELSE IF f.mavtype.size > VecThreshold
            THEN {<< >>, <<1, 2>>, [k \in 1..f.mavtype.size |-> k]}
            ELSE {[k \in 1..f.mavtype.size |-> 0], [k \in 1..f.mavtype.size |-> k + 7]}

RECURSIVE StructValues(_, _, _)
StructValues(fields, enums, i) ==
    IF i > Len(fields) THEN {<< >>}
    ELSE {<<c>> \o rest : c \in FieldValues(fields[i], enums),
                          rest \in StructValues(fields, enums, i + 1)}

\* the bytes the model gives to deser: the bytes sent, cut short, with the
\* first byte changed, or followed by one more byte
Inputs(wire) ==
    {SubSeq(wire, 1, k) : k \in {j \in 0..Len(wire) : j <= 3 \/ j >= Len(wire) - 1}}
    \cup {<<b>> \o Tail(wire) : b \in (IF wire = << >> THEN {} ELSE {0, 3, 200})}
    \cup {wire \o <<7>>}

\* the codec generated for the one message of a dialect
CodecOf(doc) ==
    LET p == parse_profile(doc, TRUE).profile IN
    /\ codec_msg = p.messages[1]
    /\ codec_enums = p.enums

\* get_heartbeat_msg of the tests, in the order of the struct's fields:
\* custom_mode 5, type Quadrotor, autopilot Ardupilotmega, base_mode 0x59,
\* system_status Standby, mavlink_version 3
get_heartbeat_msg == << <<5>>, <<2>>, <<3>>, <<89>>, <<3>>, <<3>> >>

\* the struct values the model gives to ser
SentValues(msg, enums) ==
    StructValues(msg.fields, enums, 1)
    \cup (IF msg.raw_name = S_HEARTBEAT THEN {get_heartbeat_msg} ELSE {})

InitCodec ==
    /\ emit_extensions = TRUE
    /\ IdleIngest
    /\ IdleCrc
    /\ IdleDisp
    /\ IdleApi
    /\ IdleGen
    /\ IdleMerge
    /\ IdleProto
    /\ IdleRefs
    /\ \/ \E d \in CodecDecls : d.ext <= Len(d.kinds) /\ CodecOf(CodecDoc(d))
       \/ CodecOf(CommonHeartbeat)
    /\ codec_len = 0
    /\ codec_value = << >>
    /\ codec_wire = << >>
    /\ codec_input = << >>
    /\ codec_result = None
    /\ codec_pc = "start"

\* the generator emits the struct and its ENCODED_LEN
Emit ==
    /\ codec_pc = "start"
    /\ ~EmitPanics(codec_msg)
    /\ codec_len' = ENCODED_LEN(codec_msg)
    /\ codec_pc' = "built"
    /\ UNCHANGED <<codec_msg, codec_enums, codec_value, codec_wire, codec_input, codec_result>>
    /\ UNCHANGED nonCodecVars

\* value.ser()
Ser ==
    /\ codec_pc = "built"
    /\ \E v \in SentValues(codec_msg, codec_enums) :
          /\ codec_value' = v
          /\ codec_wire' = ser(codec_msg, v)
    /\ codec_pc' = "sent"
    /\ UNCHANGED <<codec_msg, codec_enums, codec_len, codec_input, codec_result>>
    /\ UNCHANGED nonCodecVars

\* <struct>::deser(version, input)
Deser ==
    /\ codec_pc = "sent"
    /\ \E input \in Inputs(codec_wire) :
          /\ codec_input' = input
          /\ codec_result' = deser(codec_msg, codec_enums, input)
    /\ codec_pc' = "done"
    /\ UNCHANGED <<codec_msg, codec_enums, codec_len, codec_value, codec_wire>>
    /\ UNCHANGED nonCodecVars

NextCodec ==
    \/ Emit
    \/ Ser
    \/ Deser

SpecCodec == InitCodec /\ [][NextCodec]_vars

(***************************************************************************)
(* Codec claims.  What a payload holds is stated here from the layout of   *)
(* the fields, by byte offset, not by reading a buffer.                    *)
(***************************************************************************)
ElementCount(f) == IF f.mavtype.array THEN f.mavtype.size ELSE 1

FieldWidth(f) == ElementWidth(f) * ElementCount(f)

\* the bytes before field i of a payload
Offset(fields, i) == SeqSum([j \in 1..(i - 1) |-> FieldWidth(fields[j])])

Padded(bytes, len) ==
    IF Len(bytes) < len THEN bytes \o [k \in 1..(len - Len(bytes)) |-> 0] ELSE bytes

\* the little-endian number in bytes
Number(bytes, signed) ==
    LET w == Len(bytes)
        u == SeqSum([j \in 1..w |-> bytes[j] * (256 ^ (j - 1))])
    IN  IF signed /\ bytes[w] >= 128 THEN u - (256 ^ w) ELSE u

\* element k of field i of a payload
RawElement(fields, bytes, i, k) ==
    LET w == ElementWidth(fields[i])
        at == Offset(fields, i) + (k - 1) * w
    IN  Number(SubSeq(bytes, at + 1, at + w), IsSigned(fields[i].mavtype.prim))

RawCells(fields, bytes, i) ==
    [k \in 1..ElementCount(fields[i]) |-> RawElement(fields, bytes, i, k)]

RefersToEnum(f) == IsSome(f.enumtype) /\ f.display = None
IsScalarEnum(f) == RefersToEnum(f) /\ ~f.mavtype.array
IsArrayEnum(f) == RefersToEnum(f) /\ f.mavtype.array
IsFlags(f) == IsSome(f.enumtype) /\ f.display = Some(S_bitmask)

\* the values of the entries of the enum field f names
EntryValues(enums, f) ==
    LET defs == emit_defs(EnumNamed(enums, Unwrap(f.enumtype)))
    IN  {defs[i] : i \in DOMAIN defs}

Bit(n, b) == (n \div (2 ^ b)) % 2

\* raw with every bit dropped that no entry has
Masked(raw, values) ==
    LET keep == {b \in 0..7 : Bit(raw, b) = 1 /\ \E v \in values : Bit(v, b) = 1}
        bits == [b \in 1..8 |-> IF (b - 1) \in keep THEN 2 ^ (b - 1) ELSE 0]
    IN  SeqSum(bits)

\* the scalar enum fields whose raw value is the value of no entry
Unmatched(fields, enums, bytes) ==
    {i \in DOMAIN fields :
        IsScalarEnum(fields[i]) /\ RawElement(fields, bytes, i, 1) \notin EntryValues(enums, fields[i])}

Least(S) == CHOOSE i \in S : \A j \in S : i <= j

\* what decoding a payload of full length gives
Decoded(fields, enums, bytes) ==
    LET bad == Unmatched(fields, enums, bytes) IN
    IF bad # {}
    THEN Err("InvalidEnum", Unwrap(fields[Least(bad)].enumtype),
             RawElement(fields, bytes, Least(bad), 1))
    ELSE Ok([i \in DOMAIN fields |->
                IF IsFlags(fields[i])
                THEN <<Masked(RawElement(fields, bytes, i, 1), EntryValues(enums, fields[i]))>>
                ELSE RawCells(fields, bytes, i)])

HasField(P(_)) == \E i \in DOMAIN codec_msg.fields : P(codec_msg.fields[i])

IsArray(f) == f.mavtype.array
IsVec(f) == f.mavtype.array /\ f.mavtype.size > VecThreshold

\* C4: the emitted ENCODED_LEN is the sum over all fields of the message in
\* the IR, extension fields included, of the width of the field's type: the
\* width of a scalar, element width times element count for an array
C4_EncodedLen ==
    codec_pc \in {"built", "sent", "done"} =>
        codec_len = SeqSum([i \in DOMAIN codec_msg.fields |-> FieldWidth(codec_msg.fields[i])])

\* an emitted message with an array field and an extension field
C4_Witness ==
    /\ codec_pc = "built"
    /\ HasField(IsArray)
    /\ HasField(IsExtension)
    /\ codec_len > Len(codec_msg.fields)

\* every array of the value holds as many elements as its type declares
InDomain(msg, value) ==
    \A i \in DOMAIN msg.fields : Len(value[i]) = ElementCount(msg.fields[i])

\* C5: deser of the bytes ser returns for a value within the domains of its
\* fields' types returns Ok with that value, arrays of any declared length
\* included
C5_RoundTrip ==
    (codec_pc = "done" /\ codec_input = codec_wire /\ InDomain(codec_msg, codec_value))
        => codec_result = Ok(codec_value)

\* a round trip of a message with an array of more than 32 elements and an
\* enum field
C5_Witness ==
    /\ codec_pc = "done"
    /\ codec_input = codec_wire
    /\ InDomain(codec_msg, codec_value)
    /\ HasField(IsVec)
    /\ HasField(IsScalarEnum)
    /\ codec_result.kind = "Ok"

\* deser was given fewer bytes than ENCODED_LEN, and at least one
Truncated ==
    /\ codec_pc = "done"
    /\ codec_msg.fields # << >>
    /\ codec_input # << >>
    /\ Len(codec_input) < codec_len

EmptyOfEmpty ==
    /\ codec_pc = "done"
    /\ codec_msg.fields = << >>
    /\ codec_input = << >>

\* C6 (as the code has it): deser of a non-empty input shorter than
\* ENCODED_LEN returns what decoding the input padded with zero bytes to
\* ENCODED_LEN gives: Ok with the decoded value, or InvalidEnum when the padded
\* raw value of a scalar non-flag enum field is the value of no entry, and no
\* other error; deser of the empty slice for a message without fields returns
\* Ok with the default value
C6_TruncatedAsPadded ==
    /\ Truncated =>
          codec_result = Decoded(codec_msg.fields, codec_enums, Padded(codec_input, codec_len))
    /\ EmptyOfEmpty => codec_result = Ok(<< >>)

\* a truncated input whose zero padding is no enumerant of an enum field
C6_Witness == Truncated /\ codec_result.kind = "InvalidEnum" /\ codec_result.raw = 0

\* C6 (as stated): deser of a non-empty input shorter than ENCODED_LEN
\* returns Ok and never an error
C6_TruncatedNeverFails == Truncated => codec_result.kind = "Ok"

\* C7: ser returns exactly ENCODED_LEN bytes for every value of every
\* message, arrays of more than 32 elements included
C7_SerLength == codec_pc \in {"sent", "done"} => Len(codec_wire) = codec_len

FullInput == Padded(codec_input, codec_len)

\* C8 (as the code has it): deser returns InvalidEnum exactly when the raw
\* value of some scalar field referencing a non-flag enum is the value of no
\* entry, naming the first such field's enum and raw value; otherwise every
\* such field holds the entry whose value is the raw value, and an array
\* field referencing an enum holds its raw elements, whatever they are
C8_ScalarEnumLookup ==
    (codec_pc = "done" /\ codec_msg.fields # << >>) =>
        LET fields == codec_msg.fields
            bad == Unmatched(fields, codec_enums, FullInput)
        IN
        /\ codec_result.kind = "InvalidEnum" <=> bad # {}
        /\ bad # {} =>
              /\ codec_result.enum_type = Unwrap(fields[Least(bad)].enumtype)
              /\ codec_result.raw = RawElement(fields, FullInput, Least(bad), 1)
        /\ codec_result.kind = "Ok" =>
              \A i \in DOMAIN fields :
                 /\ IsScalarEnum(fields[i]) =>
                       /\ codec_result.value[i] = <<RawElement(fields, FullInput, i, 1)>>
                       /\ codec_result.value[i][1] \in EntryValues(codec_enums, fields[i])
                 /\ IsArrayEnum(fields[i]) =>
                       codec_result.value[i] = RawCells(fields, FullInput, i)

\* field i references a non-flag enum and an element of it is no entry's value
NoEntryAt(i) ==
    /\ RefersToEnum(codec_msg.fields[i])
    /\ \E k \in 1..ElementCount(codec_msg.fields[i]) :
          RawElement(codec_msg.fields, FullInput, i, k)
              \notin EntryValues(codec_enums, codec_msg.fields[i])

\* a decoded message with a scalar enum field and an array field referencing
\* an enum, an element of which is no entry of the enum
C8_Witness ==
    /\ codec_pc = "done"
    /\ HasField(IsScalarEnum)
    /\ \E i \in DOMAIN codec_msg.fields : IsArrayEnum(codec_msg.fields[i]) /\ NoEntryAt(i)
    /\ codec_result.kind = "Ok"

\* C8 (as stated): for every field referencing a non-flag enum, scalar or
\* array, deser returns InvalidEnum if a raw value of it is no entry's value
C8_EveryEnumField ==
    (codec_pc = "done" /\ \E i \in DOMAIN codec_msg.fields : NoEntryAt(i))
        => codec_result.kind = "InvalidEnum"

\* C9: decoding a field referencing a flag-set enum never fails: deser never
\* returns InvalidFlag, it returns Ok when no scalar non-flag enum field is
\* there to fail, and the decoded field holds the raw value masked with the
\* union of the entry values of the enum
C9_FlagsMasked ==
    (codec_pc = "done" /\ HasField(IsFlags)) =>
        /\ codec_result.kind # "InvalidFlag"
        /\ ~HasField(IsScalarEnum) => codec_result.kind = "Ok"
        /\ codec_result.kind = "Ok" =>
              \A i \in DOMAIN codec_msg.fields :
                 IsFlags(codec_msg.fields[i]) =>
                    codec_result.value[i] =
                        <<Masked(RawElement(codec_msg.fields, FullInput, i, 1),
                                 EntryValues(codec_enums, codec_msg.fields[i]))>>

\* a decoded flag field whose raw value has bits of no entry
C9_Witness ==
    /\ codec_pc = "done"
    /\ codec_result.kind = "Ok"
    /\ \E i \in DOMAIN codec_msg.fields :
          /\ IsFlags(codec_msg.fields[i])
          /\ codec_result.value[i] # <<RawElement(codec_msg.fields, FullInput, i, 1)>>

\* the payload of the HEARTBEAT frames of the tests
HEARTBEAT_PAYLOAD == <<5, 0, 0, 0, 2, 3, 89, 3, 3>>

IsHeartbeat == codec_msg.raw_name = S_HEARTBEAT

\* the value of the named field in a struct value
FieldOf(value, raw_name) ==
    value[CHOOSE i \in DOMAIN codec_msg.fields : codec_msg.fields[i].raw_name = raw_name]

\* C14: HEARTBEAT with custom_mode 5, type 2, autopilot 3, base_mode 0x59,
\* system_status 3 and mavlink_version 3 is serialized as the 9 bytes
\* 05 00 00 00 02 03 59 03 03, and these 9 bytes are deserialized to these
\* field values
C14_HeartbeatBytes ==
    /\ (IsHeartbeat /\ codec_pc \in {"sent", "done"} /\ codec_value = get_heartbeat_msg)
          => codec_wire = HEARTBEAT_PAYLOAD
    /\ (IsHeartbeat /\ codec_pc = "done" /\ codec_input = HEARTBEAT_PAYLOAD) =>
          /\ codec_result.kind = "Ok"
          /\ FieldOf(codec_result.value, S_custom_mode) = <<5>>
          /\ FieldOf(codec_result.value, S_type) = <<2>>
          /\ FieldOf(codec_result.value, S_autopilot) = <<3>>
          /\ FieldOf(codec_result.value, S_base_mode) = <<89>>
          /\ FieldOf(codec_result.value, S_system_status) = <<3>>
          /\ FieldOf(codec_result.value, S_mavlink_version) = <<3>>

\* the heartbeat of the tests sent and its 9 bytes received
C14_Witness ==
    /\ IsHeartbeat
    /\ codec_pc = "done"
    /\ codec_value = get_heartbeat_msg
    /\ codec_len = 9
    /\ codec_input = HEARTBEAT_PAYLOAD
    /\ codec_result.kind = "Ok"

(***************************************************************************)
(* MavMessage::parse of the generated modules.                             *)
(***************************************************************************)
S_a_xml == <<97, 46, 120, 109, 108>>
S_b_xml == <<98, 46, 120, 109, 108>>
S_c_xml == <<99, 46, 120, 109, 108>>

MaxId == 3

UnknownMessage(id) ==
    [kind |-> "UnknownMessage", value |-> << >>, enum_type |-> << >>, raw |-> id,
     variant |-> << >>]

\* a decode result as the variant of MavMessage it is wrapped in
Wrapped(r, variant) ==
    [kind |-> r.kind, value |-> r.value, enum_type |-> r.enum_type, raw |-> r.raw,
     variant |-> variant]

\* the module generated from the definition file an include names
ModuleOf(modules, inc) == CHOOSE m \in DOMAIN modules : modules[m].file = inc

\* the arms `#ids => #structs::deser(version, payload).map(MavMessage::#enums)`
\* of the match: the first message with the id decides
OwnArm(mod, id, payload) ==
    LET msgs == mod.profile.messages
        k == CHOOSE j \in DOMAIN msgs : msgs[j].id = id /\ \A l \in 1..(j - 1) : msgs[l].id # id
    IN  Wrapped(deser(msgs[k], mod.profile.enums, payload), <<msgs[k].name>>)

\* MavProfile::emit_mav_message_parse: the generated parse of module m.  In
\* the default arm each include is tried in turn and only an Ok returns.
RECURSIVE parse(_, _, _, _)
RECURSIVE IncludesBranches(_, _, _, _, _)
IncludesBranches(modules, m, i, id, payload) ==
    LET incs == modules[m].profile.includes IN
    IF i > Len(incs) THEN UnknownMessage(id)
    ELSE LET msg == parse(modules, ModuleOf(modules, incs[i]), id, payload)
         IN  IF msg.kind = "Ok"
             THEN Wrapped(msg, <<incs[i]>> \o msg.variant)
             ELSE IncludesBranches(modules, m, i + 1, id, payload)

parse(modules, m, id, payload) ==
    IF \E j \in DOMAIN modules[m].profile.messages : modules[m].profile.messages[j].id = id
    THEN OwnArm(modules[m], id, payload)
    ELSE IncludesBranches(modules, m, 1, id, payload)

IncludeEvents(inc) == <<StartEv("include", << >>), CharsEv(inc), EndEv("include")>>

\* a dialect with includes, enum MODE (entries 1 and 2) and one message with
\* one field
ModuleDoc(incs, id, kind) ==
    <<OtherEv, StartEv("mavlink", << >>)>>
    \o Flatten([i \in DOMAIN incs |-> IncludeEvents(incs[i])])
    \o <<StartEv("enums", << >>), StartEv("enum", <<Attr("name", S_MODE)>>)>>
    \o EntryEvents(S_MODE_A, DecText(1), TRUE)
    \o EntryEvents(S_MODE_B, DecText(2), TRUE)
    \o <<EndEv("enum"), EndEv("enums"), StartEv("messages", << >>),
         StartEv("message", <<Attr("name", S_M_A), Attr("id", DecText(id))>>),
         StartEv("field", CodecFieldAttrs[kind] \o <<Attr("name", S_x)>>), EndEv("field"),
         EndEv("message"), EndEv("messages"), EndEv("mavlink"), OtherEv>>

Module(file, incs, id, kind) ==
    [file |-> file, profile |-> parse_profile(ModuleDoc(incs, id, kind), TRUE).profile]

\* the payloads parse is called with
Payloads == {<< >>, <<0>>, <<1>>, <<9, 1>>}

InitDisp ==
    /\ emit_extensions = TRUE
    /\ IdleIngest
    /\ IdleCrc
    /\ IdleCodec
    /\ IdleApi
    /\ IdleGen
    /\ IdleMerge
    /\ IdleProto
    /\ IdleRefs
    /\ \E incs_a \in {<< >>, <<S_b_xml>>, <<S_b_xml, S_c_xml>>, <<S_c_xml, S_b_xml>>},
          incs_b \in {<< >>, <<S_c_xml>>},
          id_b \in 2..MaxId, id_c \in 2..MaxId,
          kind_b \in 1..2, kind_c \in 1..2 :
          disp_modules = <<Module(S_a_xml, incs_a, 1, 1),
                           Module(S_b_xml, incs_b, id_b, kind_b),
                           Module(S_c_xml, << >>, id_c, kind_c)>>
    /\ disp_id = 0
    /\ disp_payload = << >>
    /\ disp_result = None
    /\ disp_pc = "start"

\* a frame with a message id and a payload arrives
Receive ==
    /\ disp_pc = "start"
    /\ \E id \in 1..(MaxId + 1), payload \in Payloads :
          /\ disp_id' = id
          /\ disp_payload' = payload
    /\ disp_pc' = "called"
    /\ UNCHANGED <<disp_modules, disp_result>>
    /\ UNCHANGED nonDispVars

\* MavMessage::parse(version, id, payload) of the first module
Parse ==
    /\ disp_pc = "called"
    /\ disp_result' = parse(disp_modules, 1, disp_id, disp_payload)
    /\ disp_pc' = "returned"
    /\ UNCHANGED <<disp_modules, disp_id, disp_payload>>
    /\ UNCHANGED nonDispVars

NextDisp ==
    \/ Receive
    \/ Parse

SpecDisp == InitDisp /\ [][NextDisp]_vars

\* the message ids of module m and of the modules in its include closure
RECURSIVE ClosureIds(_, _)
ClosureIds(modules, m) ==
    LET p == modules[m].profile IN
    {p.messages[j].id : j \in DOMAIN p.messages}
    \cup UNION {ClosureIds(modules, ModuleOf(modules, p.includes[i])) : i \in DOMAIN p.includes}

\* C10: parse returns UnknownMessage only when the id is the id of no message
\* of the module or of a module in its include closure; for an id that is
\* one, it returns the decoded message or that message's decode error
C10_UnknownOnlyWithoutMatch ==
    (disp_pc = "returned" /\ disp_result.kind = "UnknownMessage")
        => disp_id \notin ClosureIds(disp_modules, 1)

(***************************************************************************)
(* The other functions of the generated MavMessage: extra_crc,             *)
(* message_id_from_name, default_message_from_id, message_name and         *)
(* message_id.  A value of MavMessage is the struct value and the path of  *)
(* variants it is wrapped in: the includes passed through, then the name   *)
(* of the message.                                                         *)
(***************************************************************************)
S_M_C == <<77, 95, 67>>

\* the index of the first arm of a match over the messages that takes x
FirstArm(keys, x) ==
    CHOOSE j \in DOMAIN keys : keys[j] = x /\ \A l \in 1..(j - 1) : keys[l] # x

\* what the arms of a match over the messages are keyed by
MsgId(msgs) == [j \in DOMAIN msgs |-> msgs[j].id]
MsgName(msgs) == [j \in DOMAIN msgs |-> msgs[j].name]

HasArm(keys, x) == \E j \in DOMAIN keys : keys[j] = x

\* (mutant of CrcIncludes: the includes are not asked)
CrcIncludes_Skipped(modules, m, i, id) == 0

\* MavProfile::emit_mav_message_crc: the generated extra_crc(id) of module m.
\* The default arm asks each include in turn and returns the first non-zero
\* answer.
RECURSIVE MavMessage_extra_crc(_, _, _)
RECURSIVE CrcIncludes(_, _, _, _)
CrcIncludes(modules, m, i, id) ==
    LET incs == modules[m].profile.includes IN
    IF i > Len(incs) THEN 0
    ELSE LET any == MavMessage_extra_crc(modules, ModuleOf(modules, incs[i]), id)
         IN  IF any = 0 THEN CrcIncludes(modules, m, i + 1, id) ELSE any

MavMessage_extra_crc(modules, m, id) ==
    LET msgs == modules[m].profile.messages IN
    IF HasArm(MsgId(msgs), id)
    THEN extra_crc(msgs[FirstArm(MsgId(msgs), id)])
    ELSE CrcIncludes(modules, m, 1, id)

InvalidName == [kind |-> "Invalid message name.", id |-> 0]
InvalidId == [kind |-> "Invalid message id.", variant |-> << >>, value |-> << >>]

\* (mutant of message_id_from_name: only the module's own names are known)
message_id_from_name_Own(modules, m, name) ==
    LET msgs == modules[m].profile.messages IN
    IF HasArm(MsgName(msgs), name)
    THEN [kind |-> "Ok", id |-> msgs[FirstArm(MsgName(msgs), name)].id]
    ELSE InvalidName

\* MavProfile::emit_mav_message_id_from_name
RECURSIVE message_id_from_name(_, _, _)
RECURSIVE IdFromNameIncludes(_, _, _, _)
IdFromNameIncludes(modules, m, i, name) ==
    LET incs == modules[m].profile.includes IN
    IF i > Len(incs) THEN InvalidName
    ELSE LET r == message_id_from_name(modules, ModuleOf(modules, incs[i]), name)
         IN  IF r.kind = "Ok" THEN r ELSE IdFromNameIncludes(modules, m, i + 1, name)

message_id_from_name(modules, m, name) ==
    LET msgs == modules[m].profile.messages IN
    IF HasArm(MsgName(msgs), name)
    THEN [kind |-> "Ok", id |-> msgs[FirstArm(MsgName(msgs), name)].id]
    ELSE IdFromNameIncludes(modules, m, 1, name)

\* MavProfile::emit_mav_message_default_from_id
RECURSIVE default_message_from_id(_, _, _)
RECURSIVE DefaultIncludes(_, _, _, _)
DefaultIncludes(modules, m, i, id) ==
    LET incs == modules[m].profile.includes IN
    IF i > Len(incs) THEN InvalidId
    ELSE LET msg == default_message_from_id(modules, ModuleOf(modules, incs[i]), id)
         IN  IF msg.kind = "Ok"
             THEN [msg EXCEPT !.variant = <<incs[i]>> \o msg.variant]
             ELSE DefaultIncludes(modules, m, i + 1, id)

default_message_from_id(modules, m, id) ==
    LET msgs == modules[m].profile.messages
        k == FirstArm(MsgId(msgs), id)
    IN
    IF HasArm(MsgId(msgs), id)
    THEN [kind |-> "Ok", variant |-> <<msgs[k].name>>,
          value |-> DefaultStruct(msgs[k], modules[m].profile.enums)]
    ELSE DefaultIncludes(modules, m, 1, id)

\* MavProfile::emit_mav_message_name: the name of the variant, or that of
\* the message an include's variant holds
RECURSIVE message_name(_, _, _)
message_name(modules, m, variant) ==
    IF Len(variant) = 1 THEN variant[1]
    ELSE message_name(modules, ModuleOf(modules, variant[1]), Tail(variant))

\* MavProfile::emit_mav_message_id
RECURSIVE message_id(_, _, _)
message_id(modules, m, variant) ==
    LET msgs == modules[m].profile.messages IN
    IF Len(variant) = 1 THEN msgs[FirstArm(MsgName(msgs), variant[1])].id
    ELSE message_id(modules, ModuleOf(modules, variant[1]), Tail(variant))

\* a dialect with includes, enum MODE (entries 1 and 2) and one named message
\* with one field
ApiDoc(incs, name, id, kind) ==
    <<OtherEv, StartEv("mavlink", << >>)>>
    \o Flatten([i \in DOMAIN incs |-> IncludeEvents(incs[i])])
    \o <<StartEv("enums", << >>), StartEv("enum", <<Attr("name", S_MODE)>>)>>
    \o EntryEvents(S_MODE_A, DecText(1), TRUE)
    \o EntryEvents(S_MODE_B, DecText(2), TRUE)
    \o <<EndEv("enum"), EndEv("enums"), StartEv("messages", << >>),
         StartEv("message", <<Attr("name", name), Attr("id", DecText(id))>>),
         StartEv("field", CodecFieldAttrs[kind] \o <<Attr("name", S_x)>>), EndEv("field"),
         EndEv("message"), EndEv("messages"), EndEv("mavlink"), OtherEv>>

ApiModule(file, incs, name, id, kind) ==
    [file |-> file, profile |-> parse_profile(ApiDoc(incs, name, id, kind), TRUE).profile]

\* the names message_id_from_name is called with
ApiNames == {rusty_name(S_M_A), rusty_name(S_M_B), rusty_name(S_M_C), S_M_B, S_x}

InitApi ==
    /\ emit_extensions = TRUE
    /\ IdleIngest
    /\ IdleCrc
    /\ IdleCodec
    /\ IdleDisp
    /\ IdleGen
    /\ IdleMerge
    /\ IdleProto
    /\ IdleRefs
    /\ \E incs_a \in {<< >>, <<S_b_xml>>, <<S_b_xml, S_c_xml>>, <<S_c_xml, S_b_xml>>},
          incs_b \in {<< >>, <<S_c_xml>>},
          id_b \in 2..MaxId, id_c \in 2..MaxId,
          kind_b \in 1..2, kind_c \in 1..2 :
          api_modules = <<ApiModule(S_a_xml, incs_a, S_M_A, 1, 1),
                          ApiModule(S_b_xml, incs_b, S_M_B, id_b, kind_b),
                          ApiModule(S_c_xml, << >>, S_M_C, id_c, kind_c)>>
    /\ api_id = 0
    /\ api_name = << >>
    /\ api_result = None
    /\ api_pc = "start"

\* the caller has a message id and a message name
Ask ==
    /\ api_pc = "start"
    /\ api_id' \in 1..(MaxId + 1)
    /\ api_name' \in ApiNames
    /\ api_pc' = "asked"
    /\ UNCHANGED <<api_modules, api_result>>
    /\ UNCHANGED nonApiVars

\* MavMessage::extra_crc(id) of the first module
ExtraCrc ==
    /\ api_pc = "asked"
    /\ api_result' = [crc |-> MavMessage_extra_crc(api_modules, 1, api_id)]
    /\ api_pc' = "extra_crc"
    /\ UNCHANGED <<api_modules, api_id, api_name>>
    /\ UNCHANGED nonApiVars

\* MavMessage::message_id_from_name(name) of the first module
IdFromName ==
    /\ api_pc = "asked"
    /\ api_result' = message_id_from_name(api_modules, 1, api_name)
    /\ api_pc' = "id_from_name"
    /\ UNCHANGED <<api_modules, api_id, api_name>>
    /\ UNCHANGED nonApiVars

\* MavMessage::default_message_from_id(id) of the first module, and
\* message_name() and message_id() of the value it returned
DefaultFromId ==
    /\ api_pc = "asked"
    /\ LET msg == default_message_from_id(api_modules, 1, api_id) IN
       api_result' =
          IF msg.kind = "Ok"
          THEN [msg |-> msg, name |-> message_name(api_modules, 1, msg.variant),
                id |-> message_id(api_modules, 1, msg.variant)]
          ELSE [msg |-> msg, name |-> << >>, id |-> 0]
    /\ api_pc' = "default"
    /\ UNCHANGED <<api_modules, api_id, api_name>>
    /\ UNCHANGED nonApiVars

NextApi ==
    \/ Ask
    \/ ExtraCrc
    \/ IdFromName
    \/ DefaultFromId

SpecApi == InitApi /\ [][NextApi]_vars

\* the messages of module m and of the modules in its include closure, each
\* with the enums of its module
RECURSIVE ClosureMessages(_, _)
ClosureMessages(modules, m) ==
    LET p == modules[m].profile IN
    {[msg |-> p.messages[j], enums |-> p.enums] : j \in DOMAIN p.messages}
    \cup UNION {ClosureMessages(modules, ModuleOf(modules, p.includes[i])) :
                    i \in DOMAIN p.includes}

\* the messages of the closure with the id
WithId(id) == {c \in ClosureMessages(api_modules, 1) : c.msg.id = id}

\* the messages of the closure with the name
WithName(name) == {c \in ClosureMessages(api_modules, 1) : c.msg.name = name}

OwnMessages == api_modules[1].profile.messages

S_c == <<99>>

\* the deepest nesting of generate calls the model follows
MaxDepth == 5

\* the file name without its extension: a.xml gives a, as the generated
\* modules mavlink::<name> of the tests are named
to_module_name(file) ==
    IF \E k \in DOMAIN file : file[k] = 46
    THEN SubSeq(file, 1, (CHOOSE k \in DOMAIN file :
                            file[k] = 46 /\ \A l \in (k + 1)..Len(file) : file[l] # 46) - 1)
    ELSE file

\* the definition files of the directory: a.xml, b.xml, c and c.xml
DefinitionFiles == <<S_a_xml, S_b_xml, S_c, S_c_xml>>

FileIndex(file) == CHOOSE k \in DOMAIN DefinitionFiles : DefinitionFiles[k] = file

\* File::open(definitions_dir.join(definition_file)) and parse_profile
ParsedFile(file) ==
    parse_profile(ModuleDoc(gen_files[FileIndex(file)].includes,
                            gen_files[FileIndex(file)].id, 1), TRUE).profile

Frame(file) == [file |-> file, pc |-> "enter", includes |-> << >>, i |-> 1]

Top == gen_stack[Len(gen_stack)]

SetTop(frame) == [gen_stack EXCEPT ![Len(gen_stack)] = frame]

Popped == SubSeq(gen_stack, 1, Len(gen_stack) - 1)

\* the orders read_dir may yield the files in
DirOrders ==
    {order \in [DOMAIN DefinitionFiles -> DOMAIN DefinitionFiles] :
        \A j, k \in DOMAIN DefinitionFiles : order[j] = order[k] => j = k}

DefinitionFile(incs, id) == [includes |-> incs, id |-> id]

InitGen ==
    /\ emit_extensions = TRUE
    /\ IdleIngest
    /\ IdleCrc
    /\ IdleCodec
    /\ IdleDisp
    /\ IdleApi
    /\ IdleMerge
    /\ IdleProto
    /\ IdleRefs
    /\ \E incs_a \in {<< >>, <<S_b_xml>>, <<S_b_xml, S_c>>, <<S_c, S_b_xml>>, <<S_c_xml>>},
          incs_b \in {<< >>, <<S_c>>, <<S_a_xml>>},
          incs_c \in {<< >>, <<S_a_xml>>},
          id_b \in 1..2 :
          gen_files = <<DefinitionFile(incs_a, 1), DefinitionFile(incs_b, id_b),
                        DefinitionFile(incs_c, 3), DefinitionFile(<< >>, 4)>>
    /\ \E order \in DirOrders :
          gen_dir = [k \in DOMAIN DefinitionFiles |-> DefinitionFiles[order[k]]]
    /\ gen_modules = {}
    /\ gen_stack = << >>
    /\ gen_parsed = [k \in DOMAIN DefinitionFiles |-> 0]
    /\ gen_written = [k \in DOMAIN DefinitionFiles |-> 0]
    /\ gen_pc = "main"

\* main: parser::generate(..) for the next entry of read_dir
MainCall ==
    /\ gen_pc = "main"
    /\ gen_stack = << >>
    /\ gen_dir # << >>
    /\ gen_stack' = <<Frame(Head(gen_dir))>>
    /\ gen_dir' = Tail(gen_dir)
    /\ UNCHANGED <<gen_files, gen_modules, gen_parsed, gen_written, gen_pc>>
    /\ UNCHANGED nonGenVars

\* main: the loop over the directory is over
MainDone ==
    /\ gen_pc = "main"
    /\ gen_stack = << >>
    /\ gen_dir = << >>
    /\ gen_pc' = "done"
    /\ UNCHANGED <<gen_files, gen_dir, gen_modules, gen_stack, gen_parsed, gen_written>>
    /\ UNCHANGED nonGenVars

\* generate: if modules.contains_key(&module_name) { return; }
Skip ==
    /\ gen_pc = "main"
    /\ gen_stack # << >>
    /\ Top.pc = "enter"
    /\ to_module_name(Top.file) \in gen_modules
    /\ gen_stack' = Popped
    /\ UNCHANGED <<gen_files, gen_dir, gen_modules, gen_parsed, gen_written, gen_pc>>
    /\ UNCHANGED nonGenVars

\* generate: the files are opened and created, the definition is parsed and
\* modules.insert(definition_file.to_string_lossy().to_string(), profile.clone())
Ingest ==
    /\ gen_pc = "main"
    /\ gen_stack # << >>
    /\ Top.pc = "enter"
    /\ to_module_name(Top.file) \notin gen_modules
    /\ gen_parsed' = [gen_parsed EXCEPT ![FileIndex(Top.file)] = @ + 1]
    /\ gen_modules' = gen_modules \cup {Top.file}
    /\ gen_stack' = SetTop([Top EXCEPT !.pc = "includes",
                                       !.includes = ParsedFile(Top.file).includes])
    /\ UNCHANGED <<gen_files, gen_dir, gen_written, gen_pc>>
    /\ UNCHANGED nonGenVars

\* generate: for inc in &profile.includes { generate(definitions_dir, &inc, ..) }
CallInclude ==
    /\ gen_pc = "main"
    /\ gen_stack # << >>
    /\ Top.pc = "includes"
    /\ Top.i <= Len(Top.includes)
    /\ Len(gen_stack) < MaxDepth
    /\ gen_stack' = Append(SetTop([Top EXCEPT !.i = @ + 1]), Frame(Top.includes[Top.i]))
    /\ UNCHANGED <<gen_files, gen_dir, gen_modules, gen_parsed, gen_written, gen_pc>>
    /\ UNCHANGED nonGenVars

\* the calls nest deeper than the model follows: the recursion has no end
\* but the end of the stack
Overflow ==
    /\ gen_pc = "main"
    /\ gen_stack # << >>
    /\ Top.pc = "includes"
    /\ Top.i <= Len(Top.includes)
    /\ Len(gen_stack) >= MaxDepth
    /\ gen_pc' = "overflow"
    /\ UNCHANGED <<gen_files, gen_dir, gen_modules, gen_stack, gen_parsed, gen_written>>
    /\ UNCHANGED nonGenVars

\* generate: merge_enums, the schema unit and the codec unit are written,
\* and the call returns
Finish ==
    /\ gen_pc = "main"
    /\ gen_stack # << >>
    /\ Top.pc = "includes"
    /\ Top.i > Len(Top.includes)
    /\ Top.includes \in Seq(gen_modules)
    /\ gen_written' = [gen_written EXCEPT ![FileIndex(Top.file)] = @ + 1]
    /\ gen_stack' = Popped
    /\ UNCHANGED <<gen_files, gen_dir, gen_modules, gen_parsed, gen_pc>>
    /\ UNCHANGED nonGenVars

\* generate: merge_enums finds an include that is not a key of the cache:
\* panic!("Module {} not loaded!", inc)
NotLoaded ==
    /\ gen_pc = "main"
    /\ gen_stack # << >>
    /\ Top.pc = "includes"
    /\ Top.i > Len(Top.includes)
    /\ Top.includes \notin Seq(gen_modules)
    /\ gen_pc' = "panicked"
    /\ UNCHANGED <<gen_files, gen_dir, gen_modules, gen_stack, gen_parsed, gen_written>>
    /\ UNCHANGED nonGenVars

NextGen ==
    \/ MainCall
    \/ MainDone
    \/ Skip
    \/ Ingest
    \/ CallInclude
    \/ Overflow
    \/ Finish
    \/ NotLoaded

SpecGen == InitGen /\ [][NextGen]_vars

\* C15: over the generate calls of one build, made for the files of the
\* directory and for their includes, each module is ingested and emitted at
\* most once
C15_AtMostOnce ==
    \A k \in DOMAIN DefinitionFiles : gen_parsed[k] <= 1 /\ gen_written[k] <= 1

\* the calls of generate that have ingested their module and not returned
Resolving == {k \in DOMAIN gen_stack : gen_stack[k].pc = "includes"}

\* C16: resolving terminates for every include graph, those in which two
\* modules include each other among them: a module that was ingested is in
\* the cache before its includes are visited and is not visited again, so no
\* module is being resolved twice at once and the calls do not nest without
\* end
C16_Terminates ==
    /\ gen_pc # "overflow"
    /\ \A j, k \in Resolving : gen_stack[j].file = gen_stack[k].file => j = k

(***************************************************************************)
(* merge_enums: the enums of a profile widened by those of its includes.   *)
(* The cache is the sequence of the loaded modules, read by file name.     *)
(***************************************************************************)
S_MODE_C == <<77, 79, 68, 69, 95, 67>>

\* the most entries an enum of the merged dialects declares
MaxEntries == 2

\* fn enum_contains(enums: &[MavEnumEntry], val: u32) -> bool
enum_contains(enums, val) ==
    \E i \in DOMAIN enums : IsSome(enums[i].value) /\ Unwrap(enums[i].value) = val

IsLoaded(modules, inc) == \E m \in DOMAIN modules : modules[m].file = inc

\* the entries of the includes' enums of the same name that enum_val lacks,
\* in the order of the includes
missing(enum_val, includes, modules) ==
    LET Lacks(e) ==
            ~enum_contains(enum_val.entries, IF IsSome(e.value) THEN Unwrap(e.value) ELSE 0)
        FromEnum(e2) ==
            IF enum_val.name = e2.name THEN SelectSeq(e2.entries, Lacks) ELSE << >>
        FromInclude(inc) ==
            LET enums == modules[ModuleOf(modules, inc)].profile.enums
            IN  Flatten([k \in DOMAIN enums |-> FromEnum(enums[k])])
    IN  Flatten([i \in DOMAIN includes |-> FromInclude(includes[i])])

\* (mutant of merge_enums: the missing entries are put before the own ones)
merge_enums_Prepend(prof, modules) ==
    [prof EXCEPT !.enums =
        [k \in DOMAIN prof.enums |->
            [prof.enums[k] EXCEPT !.entries =
                missing(prof.enums[k], prof.includes, modules) \o @]]]

\* fn merge_enums(profile: &mut MavProfile, modules: &HashMap<String, MavProfile>)
merge_enums(prof, modules) ==
    [prof EXCEPT !.enums =
        [k \in DOMAIN prof.enums |->
            [prof.enums[k] EXCEPT !.entries =
                @ \o missing(prof.enums[k], prof.includes, modules)]]]

\* the value an entry is declared with, NoValue for none
NoValue == 0 - 1

EntryValues12 == {NoValue, 0, 1, 2}

\* the entry lists of the merged dialects: one or two entries
EntryLists == UNION {[1..n -> EntryValues12] : n \in 1..MaxEntries}

MergeEntryEvents(name, v) == EntryEvents(name, DecText(IF v = NoValue THEN 0 ELSE v), v # NoValue)

\* a dialect with includes and one enum, whose first entry is named first
MergeDoc(incs, enum_name, first, second, values) ==
    <<OtherEv, StartEv("mavlink", << >>)>>
    \o Flatten([i \in DOMAIN incs |-> IncludeEvents(incs[i])])
    \o <<StartEv("enums", << >>), StartEv("enum", <<Attr("name", enum_name)>>)>>
    \o MergeEntryEvents(first, values[1])
    \o (IF Len(values) > 1 THEN MergeEntryEvents(second, values[2]) ELSE << >>)
    \o <<EndEv("enum"), EndEv("enums"), EndEv("mavlink"), OtherEv>>

MergeModule(file, doc) == [file |-> file, profile |-> parse_profile(doc, TRUE).profile]

InitMerge ==
    /\ emit_extensions = TRUE
    /\ IdleIngest
    /\ IdleCrc
    /\ IdleCodec
    /\ IdleDisp
    /\ IdleApi
    /\ IdleGen
    /\ IdleProto
    /\ IdleRefs
    /\ \E incs \in {<<S_b_xml>>, <<S_b_xml, S_c_xml>>, <<S_c_xml>>},
          own \in EntryLists, of_b \in EntryLists, of_c \in {<<2>>, <<NoValue>>},
          name_c \in {S_MODE, S_FLAGS}, loaded_c \in BOOLEAN :
          /\ merge_profile =
                MergeModule(S_a_xml, MergeDoc(incs, S_MODE, S_MODE_A, S_MODE_B, own)).profile
          /\ merge_modules =
                <<MergeModule(S_b_xml, MergeDoc(<< >>, S_MODE, S_MODE_B, S_MODE_C, of_b))>>
                \o (IF loaded_c
                    THEN <<MergeModule(S_c_xml, MergeDoc(<< >>, name_c, S_MODE_C, S_MODE_C, of_c))>>
                    ELSE << >>)
    /\ merge_once = None
    /\ merge_twice = None
    /\ merge_pc = "start"

AllLoaded ==
    \A i \in DOMAIN merge_profile.includes : IsLoaded(merge_modules, merge_profile.includes[i])

\* merge_enums(&mut profile, modules)
MergeOnce ==
    /\ merge_pc = "start"
    /\ AllLoaded
    /\ merge_once' = merge_enums(merge_profile, merge_modules)
    /\ merge_pc' = "once"
    /\ UNCHANGED <<merge_profile, merge_modules, merge_twice>>
    /\ UNCHANGED nonMergeVars

\* panic!("Module {} not loaded!", inc)
MergePanic ==
    /\ merge_pc = "start"
    /\ ~AllLoaded
    /\ merge_pc' = "panicked"
    /\ UNCHANGED <<merge_profile, merge_modules, merge_once, merge_twice>>
    /\ UNCHANGED nonMergeVars

\* merge_enums applied to the merged profile once more
MergeTwice ==
    /\ merge_pc = "once"
    /\ merge_twice' = merge_enums(merge_once, merge_modules)
    /\ merge_pc' = "twice"
    /\ UNCHANGED <<merge_profile, merge_modules, merge_once>>
    /\ UNCHANGED nonMergeVars

NextMerge ==
    \/ MergeOnce
    \/ MergePanic
    \/ MergeTwice

SpecMerge == InitMerge /\ [][NextMerge]_vars

\* C17: merge_enums applied twice against the same included profiles gives
\* every enum the entry list one application gives it, for included entries
\* with explicit values and for included entries without
C17_MergeIdempotent ==
    merge_pc = "twice" =>
        \A k \in DOMAIN merge_once.enums :
            merge_twice.enums[k].entries = merge_once.enums[k].entries

(***************************************************************************)
(* The two backends on one enum: MavEnum::emit_defs of the native codec    *)
(* and MavEnum::emit_proto of the schema unit.  What emit_proto writes is  *)
(* the sequence of its lines that define or annotate an enumerant.         *)
(***************************************************************************)
S_UNDEFINED == <<95, 85, 78, 68, 69, 70, 73, 78, 69, 68>>

\* the most entries an enum of the emitted dialects declares
MaxProtoEntries == 3

\* sorted.sort_by(..): Less when a has a value and b has none or a greater one
ValueLess(a, b) ==
    IsSome(a.value) /\ (~IsSome(b.value) \/ Unwrap(a.value) < Unwrap(b.value))

RECURSIVE InsertByValue(_, _)
InsertByValue(sorted, x) ==
    IF sorted = << >> THEN <<x>>
    ELSE IF ValueLess(x, Head(sorted)) THEN <<x>> \o sorted
    ELSE <<Head(sorted)>> \o InsertByValue(Tail(sorted), x)

\* let mut sorted = self.entries.clone(); sorted.sort_by(..): a stable sort
RECURSIVE SortByValue(_)
SortByValue(entries) ==
    IF entries = << >> THEN << >>
    ELSE InsertByValue(SortByValue(SubSeq(entries, 1, Len(entries) - 1)), entries[Len(entries)])

\* the explicit values of the entries
ExplicitValues(entries) ==
    {Unwrap(entries[i].value) : i \in {j \in DOMAIN entries : IsSome(entries[j].value)}}

\* max_val after the first loop
max_val(entries) ==
    IF ExplicitValues(entries) = {} THEN 0
    ELSE CHOOSE a \in ExplicitValues(entries) : \A b \in ExplicitValues(entries) : b <= a

\* has_zero after the first loop
has_zero(entries) == 0 \in ExplicitValues(entries)

\* (mutant of NeedsPlaceholder: max_val is not looked at)
NeedsPlaceholder_NoZero(entries) == ~has_zero(entries)

\* if i == 0 && !has_zero && max_val != 0
NeedsPlaceholder(entries) == ~has_zero(entries) /\ max_val(entries) # 0

\* while v > 0 && i <= 32 && !found { if (v >> (i - 1)) == 1 { v = i; found = true; } i += 1; }
RECURSIVE BitLoop(_, _)
BitLoop(v, i) ==
    IF v > 0 /\ i <= 32
    THEN IF v \div (2 ^ (i - 1)) = 1 THEN [found |-> TRUE, v |-> i]
         ELSE BitLoop(v, i + 1)
    ELSE [found |-> FALSE, v |-> v]

\* (val & 0x80000000) != 0
TopBitSet(val) == val \div 1073741824 >= 2

\* the second loop of MavEnum::emit_proto from the i-th entry of sorted (i
\* counts from 0): the lines written, and how the loop ended
RECURSIVE EmitEntries(_, _, _, _, _)
EmitEntries(enm, sorted, i, comment_field, lines) ==
    IF i >= Len(sorted) THEN [kind |-> "Ok", lines |-> lines]
    ELSE
    LET entryAt == sorted[i + 1]
        bits == IsSome(enm.bitfield)
        placeholder ==
            IF i = 0 /\ NeedsPlaceholder(sorted)
            THEN <<[kind |-> "placeholder", name |-> enm.raw_name \o S_UNDEFINED, value |-> 0,
                    commented |-> FALSE]>>
            ELSE << >>
        loop == BitLoop(Unwrap(entryAt.value), 1)
        val == IF IsSome(entryAt.value) THEN Unwrap(entryAt.value) ELSE max_val(sorted) + i
        commented == comment_field \/ TopBitSet(val)
        defined == <<[kind |-> "entry", name |-> entryAt.raw_name, value |-> val,
                      commented |-> commented]>>
    IN
    IF bits /\ ~IsSome(entryAt.value)
    THEN [kind |-> "Panic", lines |-> lines \o placeholder]
    ELSE IF bits /\ ~loop.found /\ loop.v # 0
    THEN [kind |-> "Err", lines |-> lines \o placeholder]
    ELSE LET bit == IF bits
                    THEN <<[kind |-> "bit", name |-> entryAt.raw_name, value |-> loop.v,
                            commented |-> FALSE]>>
                    ELSE << >>
         IN  EmitEntries(enm, sorted, i + 1, commented,
                         lines \o placeholder \o bit \o defined)

\* MavEnum::emit_proto
MavEnum_emit_proto(enm) == EmitEntries(enm, SortByValue(enm.entries), 0, FALSE, << >>)

ProtoValues == {NoValue, 0, 1, 2, 3}

ProtoEntryNames == <<S_MODE_A, S_MODE_B, S_MODE_C, S_MODE \o <<95, 68>>, S_MODE \o <<95, 69>>>>

\* a dialect with enum MODE and, for a flag set, a message with a bitmask
\* field of it
ProtoDoc(values, bitmask) ==
    <<OtherEv, StartEv("mavlink", << >>), StartEv("enums", << >>),
      StartEv("enum", <<Attr("name", S_MODE)>>)>>
    \o Flatten([k \in DOMAIN values |-> MergeEntryEvents(ProtoEntryNames[k], values[k])])
    \o <<EndEv("enum"), EndEv("enums"), StartEv("messages", << >>)>>
    \o (IF bitmask
        THEN <<StartEv("message", <<Attr("name", S_M_A), Attr("id", DecText(7))>>),
               StartEv("field", <<Attr("type", S_uint8_t), Attr("name", S_mode),
                                  Attr("enum", S_MODE), Attr("display", S_bitmask)>>),
               EndEv("field"), EndEv("message")>>
        ELSE << >>)
    \o <<EndEv("messages"), EndEv("mavlink"), OtherEv>>

InitProto ==
    /\ emit_extensions = TRUE
    /\ IdleIngest
    /\ IdleCrc
    /\ IdleCodec
    /\ IdleDisp
    /\ IdleApi
    /\ IdleGen
    /\ IdleMerge
    /\ IdleRefs
    /\ \E values \in UNION {[1..n -> ProtoValues] : n \in 0..MaxProtoEntries},
          bitmask \in BOOLEAN :
          proto_enum = parse_profile(ProtoDoc(values, bitmask), TRUE).profile.enums[1]
    /\ proto_native = << >>
    /\ proto_schema = None
    /\ proto_pc = "start"

\* profile.emit_proto(..): e.emit_proto(outf)? for the enum
EmitProto ==
    /\ proto_pc = "start"
    /\ proto_schema' = MavEnum_emit_proto(proto_enum)
    /\ proto_pc' = "schema"
    /\ UNCHANGED <<proto_enum, proto_native>>
    /\ UNCHANGED nonProtoVars

\* profile.emit_rust(): the enumerants of the enum, reached when emit_proto
\* returned Ok
EmitRust ==
    /\ proto_pc = "schema"
    /\ proto_schema.kind = "Ok"
    /\ proto_native' = emit_defs(proto_enum)
    /\ proto_pc' = "native"
    /\ UNCHANGED <<proto_enum, proto_schema>>
    /\ UNCHANGED nonProtoVars

\* .unwrap() of the result of emit_proto, or the expect in it
EmitAbort ==
    /\ proto_pc = "schema"
    /\ proto_schema.kind # "Ok"
    /\ proto_pc' = "aborted"
    /\ UNCHANGED <<proto_enum, proto_native, proto_schema>>
    /\ UNCHANGED nonProtoVars

NextProto ==
    \/ EmitProto
    \/ EmitRust
    \/ EmitAbort

SpecProto == InitProto /\ [][NextProto]_vars

\* the lines of the schema enum that define an enumerant
Defining(lines) ==
    {k \in DOMAIN lines : lines[k].kind \in {"placeholder", "entry"} /\ ~lines[k].commented}

\* the value the schema enum gives the entry of the name
SchemaValueOf(raw_name) ==
    proto_schema.lines[CHOOSE k \in DOMAIN proto_schema.lines :
        proto_schema.lines[k].kind = "entry" /\ proto_schema.lines[k].name = raw_name].value

\* C18: for every entry of an enum of a resolved profile, the value the
\* native codec gives it equals the value the schema unit gives it, whether
\* all, none or some of the entries have explicit values
C18_BackendsAgree ==
    proto_pc = "native" =>
        \A k \in DOMAIN proto_enum.entries :
            proto_native[k] = SchemaValueOf(proto_enum.entries[k].raw_name)

IsPowerOfTwo(v) == \E b \in 0..30 : v = 2 ^ b

\* C19: schema emission of a flag-set enum fails whenever the value of some
\* entry is neither zero nor a power of two, and succeeds, each entry
\* annotated with the bit its value occupies, when every value is
C19_NonPowerRejected ==
    (proto_pc \in {"schema", "native", "aborted"} /\ IsSome(proto_enum.bitfield)
        /\ \A k \in DOMAIN proto_enum.entries : IsSome(proto_enum.entries[k].value)) =>
        LET values == ExplicitValues(proto_enum.entries) IN
        IF \E v \in values : v # 0 /\ ~IsPowerOfTwo(v)
        THEN proto_schema.kind = "Err"
        ELSE /\ proto_schema.kind = "Ok"
             /\ \A k \in DOMAIN proto_schema.lines :
                   proto_schema.lines[k].kind = "bit" =>
                      LET v == proto_schema.lines[k + 1].value
                      IN  IF v = 0 THEN proto_schema.lines[k].value = 0
                          ELSE v = 2 ^ (proto_schema.lines[k].value - 1)

\* the explicit values of the entries are pairwise distinct
DistinctValues(entries) ==
    \A j, k \in DOMAIN entries :
        (IsSome(entries[j].value) /\ entries[j].value = entries[k].value) => j = k

\* the schema enum defines exactly one enumerant with the value 0: an entry
\* of the enum when an entry has that value, otherwise the placeholder
\* <ENUM>_UNDEFINED = 0, written first
OneZero ==
        LET lines == proto_schema.lines
            zeros == {k \in Defining(lines) : lines[k].value = 0}
        IN  /\ Cardinality(zeros) = 1
            /\ \A k \in zeros :
                  lines[k].kind = "placeholder" =>
                      /\ k = 1
                      /\ lines[k].name = proto_enum.raw_name \o S_UNDEFINED
                      /\ \A e \in DOMAIN proto_enum.entries :
                            proto_enum.entries[e].value # Some(0)
            /\ \A k \in DOMAIN lines : lines[k].kind = "placeholder" => k \in zeros

\* C20: the schema enum emitted for an enum with at least one entry, the
\* explicit values of which are pairwise distinct, defines exactly one
\* enumerant with the value 0: the enum's own zero-valued entry when it has
\* one, otherwise the placeholder <ENUM>_UNDEFINED = 0 written before the
\* first entry
C20_OneZero ==
    (proto_pc \in {"schema", "native"} /\ proto_schema.kind = "Ok"
        /\ proto_enum.entries # << >> /\ DistinctValues(proto_enum.entries)) => OneZero

\* C20 as stated, for every enum with at least one entry
C20_OneZeroEvery ==
    (proto_pc \in {"schema", "native"} /\ proto_schema.kind = "Ok"
        /\ proto_enum.entries # << >>) => OneZero

\* an enum without a zero entry, emitted with the placeholder first
C20_Witness ==
    /\ proto_pc = "native"
    /\ Len(proto_enum.entries) = 2
    /\ proto_enum.entries[1].value = None
    /\ proto_enum.entries[2].value = Some(2)
    /\ proto_schema.lines[1].kind = "placeholder"
    /\ Len(proto_schema.lines) = 3

(***************************************************************************)
(* The schema unit's fields: MavField::emit_proto over the profile being   *)
(* emitted and the cache, for the modules a.xml, b.xml and c.xml of one    *)
(* build.  What emit_proto writes is kept as the parts of the field line.  *)
(***************************************************************************)
\* MavType::proto_type
proto_type(t) ==
    IF t.array
    THEN IF t.prim = "Char" THEN "string" ELSE "repeated"
    ELSE CASE t.prim \in {"UInt8", "UInt8MavlinkVersion", "Char", "UInt16", "UInt32"} -> "uint32"
           [] t.prim \in {"Int8", "Int16", "Int32"} -> "int32"
           [] t.prim = "Float"  -> "float"
           [] t.prim = "UInt64" -> "uint64"
           [] t.prim = "Int64"  -> "int64"
           [] t.prim = "Double" -> "double"

\* fn has_enum(enums: &[MavEnum], name: &str) -> Option<MavEnum>
has_enum(enums, name) ==
    IF \E k \in DOMAIN enums : enums[k].name = name
    THEN Some(enums[CHOOSE k \in DOMAIN enums :
                  enums[k].name = name /\ \A l \in 1..(k - 1) : enums[l].name # name])
    ELSE None

\* the field line for an enum found in the profile (qualifier None) or in an
\* include: the plain wire type for a flag set, the enum type otherwise
EnumLine(f, enm, qualifier) ==
    [kind |-> "Ok", qualifier |-> qualifier, enum |-> f.raw_enumtype,
     type |-> IF IsSome(enm.bitfield) THEN proto_type(f.mavtype) ELSE "enum",
     repeated |-> ~IsSome(enm.bitfield) /\ f.mavtype.array]

\* for inc in &profile.includes { .. break; } and if !found { return Err(..) }
RECURSIVE FindInIncludes(_, _, _, _)
FindInIncludes(f, includes, modules, i) ==
    IF i > Len(includes)
    THEN [kind |-> "Err", qualifier |-> None, enum |-> f.raw_enumtype,
          type |-> "", repeated |-> FALSE]
    ELSE LET p == modules[ModuleOf(modules, includes[i])].profile
             enm == has_enum(p.enums, Unwrap(f.enumtype))
         IN  IF IsSome(enm)
             THEN EnumLine(f, Unwrap(enm), Some(to_module_name(includes[i])))
             ELSE FindInIncludes(f, includes, modules, i + 1)

\* MavField::emit_proto
MavField_emit_proto(f, prof, modules) ==
    IF IsSome(f.enumtype)
    THEN LET enm == has_enum(prof.enums, Unwrap(f.enumtype))
         IN  IF IsSome(enm) THEN EnumLine(f, Unwrap(enm), None)
             ELSE FindInIncludes(f, prof.includes, modules, 1)
    ELSE [kind |-> "Ok", qualifier |-> None, enum |-> None,
          type |-> proto_type(f.mavtype), repeated |-> FALSE]

\* how the field of a module refers to the enum FLAGS
RefAttrs(refers) ==
    CASE refers = "plain"   -> <<Attr("type", S_uint8_t), Attr("enum", S_FLAGS)>>
      [] refers = "array"   -> <<Attr("type", ArrayText(S_uint8_t, 2)), Attr("enum", S_FLAGS)>>
      [] refers = "bitmask" -> <<Attr("type", S_uint8_t), Attr("enum", S_FLAGS),
                                 Attr("display", S_bitmask)>>
      [] OTHER              -> <<Attr("type", S_uint16_t)>>

\* a dialect with includes, enum MODE, enum FLAGS if it defines it, and one
\* message with one field
RefDoc(incs, defines, refers) ==
    <<OtherEv, StartEv("mavlink", << >>)>>
    \o Flatten([i \in DOMAIN incs |-> IncludeEvents(incs[i])])
    \o <<StartEv("enums", << >>), StartEv("enum", <<Attr("name", S_MODE)>>)>>
    \o EntryEvents(S_MODE_A, DecText(1), TRUE)
    \o <<EndEv("enum")>>
    \o (IF defines
        THEN <<StartEv("enum", <<Attr("name", S_FLAGS)>>)>>
             \o EntryEvents(S_FLAGS_A, DecText(1), TRUE)
             \o <<EndEv("enum")>>
        ELSE << >>)
    \o <<EndEv("enums"), StartEv("messages", << >>),
         StartEv("message", <<Attr("name", S_M_A), Attr("id", DecText(1))>>),
         StartEv("field", RefAttrs(refers) \o <<Attr("name", S_x)>>), EndEv("field"),
         EndEv("message"), EndEv("messages"), EndEv("mavlink"), OtherEv>>

RefModule(file, incs, defines, refers) ==
    [file |-> file, profile |-> parse_profile(RefDoc(incs, defines, refers), TRUE).profile]

InitRefs ==
    /\ emit_extensions = TRUE
    /\ IdleIngest
    /\ IdleCrc
    /\ IdleCodec
    /\ IdleDisp
    /\ IdleApi
    /\ IdleGen
    /\ IdleMerge
    /\ IdleProto
    /\ \E incs_a \in {<< >>, <<S_b_xml>>, <<S_b_xml, S_c_xml>>, <<S_c_xml, S_b_xml>>},
          incs_b \in {<< >>, <<S_c_xml>>},
          in_a \in BOOLEAN, in_b \in BOOLEAN, in_c \in BOOLEAN,
          refers_a \in {"plain", "array", "bitmask"},
          refers_b \in {"none", "bitmask"}, refers_c \in {"none", "bitmask"} :
          ref_modules = <<RefModule(S_a_xml, incs_a, in_a, refers_a),
                          RefModule(S_b_xml, incs_b, in_b, refers_b),
                          RefModule(S_c_xml, << >>, in_c, refers_c)>>
    /\ ref_profile = EmptyProfile
    /\ ref_result = None
    /\ ref_pc = "start"

\* generate: merge_enums(&mut profile, modules) for the first module
RefMerge ==
    /\ ref_pc = "start"
    /\ ref_profile' = merge_enums(ref_modules[1].profile, ref_modules)
    /\ ref_pc' = "merged"
    /\ UNCHANGED <<ref_modules, ref_result>>
    /\ UNCHANGED nonRefVars

\* the field line of the message of the profile
RefLine == MavField_emit_proto(ref_profile.messages[1].fields[1], ref_profile, ref_modules)

\* profile.emit_proto(&mut proto_outf, &profile, modules): the field is written
EmitField ==
    /\ ref_pc = "merged"
    /\ RefLine.kind = "Ok"
    /\ ref_result' = Some(RefLine)
    /\ ref_pc' = "emitted"
    /\ UNCHANGED <<ref_modules, ref_profile>>
    /\ UNCHANGED nonRefVars

\* .unwrap() of Err("Failed to find enum ..")
EmitFieldFails ==
    /\ ref_pc = "merged"
    /\ RefLine.kind = "Err"
    /\ ref_result' = Some(RefLine)
    /\ ref_pc' = "failed"
    /\ UNCHANGED <<ref_modules, ref_profile>>
    /\ UNCHANGED nonRefVars

NextRefs ==
    \/ RefMerge
    \/ EmitField
    \/ EmitFieldFails

SpecRefs == InitRefs /\ [][NextRefs]_vars

\* the modules a module includes
DirectIncludes(m) ==
    {ModuleOf(ref_modules, ref_modules[m].profile.includes[i]) :
        i \in DOMAIN ref_modules[m].profile.includes}

RECURSIVE IncludeClosure(_, _)
IncludeClosure(S, n) ==
    IF n = 0 THEN S
    ELSE IncludeClosure(S \cup UNION {DirectIncludes(m) : m \in S}, n - 1)

\* the modules a module includes, directly or through includes
Closure(m) == IncludeClosure(DirectIncludes(m), Len(ref_modules))

Defines(m, name) ==
    \E k \in DOMAIN ref_modules[m].profile.enums : ref_modules[m].profile.enums[k].name = name

ModuleName(m) == to_module_name(ref_modules[m].file)

\* the field of the message of module m
RefField(m) == ref_modules[m].profile.messages[1].fields[1]

\* C21: a field that references an enum of its own profile is written with
\* the bare enum name; one whose enum is defined in a module of the include
\* closure is written qualified with the name of a module that defines it;
\* the emission fails with "Failed to find enum" only when neither the
\* profile nor a module of its include closure defines the enum name
C21_EnumReference ==
    ref_pc \in {"emitted", "failed"} =>
        LET r == Unwrap(ref_result)
            name == Unwrap(RefField(1).enumtype)
        IN  /\ Defines(1, name) => r.kind = "Ok" /\ r.qualifier = None
            /\ (~Defines(1, name) /\ \E m \in Closure(1) : Defines(m, name)) =>
                   /\ r.kind = "Ok"
                   /\ \E m \in Closure(1) :
                          Defines(m, name) /\ r.qualifier = Some(ModuleName(m))
            /\ r.kind = "Err" =>
                   ~Defines(1, name) /\ \A m \in Closure(1) : ~Defines(m, name)

\* a field with display hint "bitmask" of module m refers to the enum of that
\* name that module k defines
RefersAsBitmask(m, k, name) ==
    /\ RefField(m).enumtype = Some(name)
    /\ RefField(m).display = Some(S_bitmask)
    /\ Defines(k, name)
    /\ \/ m = k
       \/ ~Defines(m, name) /\ k \in Closure(m)

\* C22: after resolution an enum is marked as a flag set in the profile that
\* defines it exactly when a field with display hint "bitmask" refers to it,
\* the field being of the same module or of a module that includes it
C22_BitmaskMarked ==
    \A k \in DOMAIN ref_modules :
        \A j \in DOMAIN ref_modules[k].profile.enums :
            LET e == ref_modules[k].profile.enums[j]
            IN  IsSome(e.bitfield) <=>
                    \E m \in DOMAIN ref_modules : RefersAsBitmask(m, k, e.name)

(***************************************************************************)
(* merge_enums: what it keeps                                              *)
(***************************************************************************)
\* the profiles merge_enums reads: the profile's own and its includes'
MergedFrom ==
    <<merge_profile>>
    \o [i \in DOMAIN merge_profile.includes |->
            merge_modules[ModuleOf(merge_modules, merge_profile.includes[i])].profile]

AllDistinct(prof) == \A k \in DOMAIN prof.enums : DistinctValues(prof.enums[k].entries)

\* C28: when the explicit entry values of every enum of the profile and of
\* its directly included profiles are pairwise distinct before merge_enums,
\* those of every enum of the profile are pairwise distinct after it
C28_DistinctAfterMerge ==
    (merge_pc \in {"once", "twice"} /\ \A i \in DOMAIN MergedFrom : AllDistinct(MergedFrom[i]))
        => AllDistinct(merge_once)

\* after is before with entries appended to its enums and nothing else changed
OnlyAppended(before, after) ==
    /\ after.messages = before.messages
    /\ after.includes = before.includes
    /\ DOMAIN after.enums = DOMAIN before.enums
    /\ \A k \in DOMAIN before.enums :
          /\ [after.enums[k] EXCEPT !.entries = << >>]
                 = [before.enums[k] EXCEPT !.entries = << >>]
          /\ Len(after.enums[k].entries) >= Len(before.enums[k].entries)
          /\ SubSeq(after.enums[k].entries, 1, Len(before.enums[k].entries))
                 = before.enums[k].entries

\* C29: merge_enums leaves the cached profiles as they are, and changes the
\* profile only by appending entries to its enums: the messages, the include
\* list, the enums and their order, and the entries each enum had are kept
C29_OnlyAppends ==
    /\ [](/\ merge_pc \in {"once", "twice"} => OnlyAppended(merge_profile, merge_once)
          /\ merge_pc = "twice" => OnlyAppended(merge_once, merge_twice))
    /\ [][merge_modules' = merge_modules]_vars

\* a merge that appended an entry of an include to an enum with two entries
C29_Witness ==
    /\ merge_pc = "once"
    /\ Len(merge_profile.enums[1].entries) = 2
    /\ Len(merge_once.enums[1].entries) > 2

(***************************************************************************)
(* generate: the message ids and the cache keys of the modules it emits    *)
(***************************************************************************)
GenIncludes(k) ==
    {FileIndex(gen_files[k].includes[i]) : i \in DOMAIN gen_files[k].includes}

RECURSIVE GenClosure(_, _)
GenClosure(S, n) ==
    IF n = 0 THEN S
    ELSE GenClosure(S \cup UNION {GenIncludes(k) : k \in S}, n - 1)

\* a module with the modules it includes, directly or through includes
WithIncluded(k) == GenClosure({k}, Len(DefinitionFiles))

\* C23: when the units of a module were written, no two messages of the
\* module and the modules it includes, directly or through includes, have
\* the same id
C23_IdsUnique ==
    \A k \in DOMAIN DefinitionFiles :
        gen_written[k] > 0 =>
            \A i, j \in WithIncluded(k) : gen_files[i].id = gen_files[j].id => i = j

\* a call of generate is at merge_enums
AtMerge ==
    /\ gen_stack # << >>
    /\ Top.pc = "includes"
    /\ Top.i > Len(Top.includes)

\* C30: when a call of generate is at merge_enums and the emission, every
\* name of the profile's include list is a key of the cache, and the build
\* never ends with "Module .. not loaded!"
C30_IncludesLoaded ==
    /\ AtMerge => \A i \in DOMAIN Top.includes : Top.includes[i] \in gen_modules
    /\ gen_pc # "panicked"

====
